---------------------------- MODULE Spec2Model ----------------------------
(***************************************************************************)
(* A model of the F-Prot scanning-daemon client (package fprot).           *)
(*                                                                         *)
(* The Client owns one lazily dialled connection, a textproto pipeline on  *)
(* it, and four configuration fields.  Every public operation is modelled  *)
(* as the sequence of steps its handler takes (lock, dial loop, sequencer  *)
(* calls, writes, reads, deferred calls); the network, the daemon and the  *)
(* filesystem answer each step nondeterministically.                       *)
(*                                                                         *)
(* Text is modelled as sequences of one-character strings, so that the     *)
(* response grammar (responseRe) and strconv.Atoi are computed character   *)
(* by character, as the code computes them.                                *)
(***************************************************************************)
EXTENDS Integers, Sequences, FiniteSets, TLC

VARIABLES
    client,   \* the Client struct: configuration, tc, conn
    mu,       \* Client.m: 0 when free, else the caller holding it
    net,      \* the socket behind Client.conn and what happened on it
    pipe,     \* textproto.Pipeline of Client.tc: id, request and response sequencers
    pc,       \* pc[p]: where caller p stands in the handler it runs
    loc,      \* loc[p]: the locals of the handler caller p runs
    probe     \* input and output of one application of a pure function

vars == <<client, mu, net, pipe, pc, loc, probe>>

-----------------------------------------------------------------------------
(* Bounds of the model.                                                    *)

\* largest status code the parser is applied to in SpecParse
MaxCode == 300

-----------------------------------------------------------------------------
(* Program constants.                                                      *)

defaultTimeout == 15
defaultSleep == 1
defaultCmdTimeout == 60

NoMatch == 0
Infected == 1
HeuristicMatch == 2
UserError == 4
RestrictionError == 8
SystemError == 16
InternalError == 32
SkipError == 64
DisinfectError == 128

Help == 1
ScanFile == 2
ScanStream == 3
Queue == 4
ScanQueue == 5
Quit == 6

-----------------------------------------------------------------------------
(* Characters and integers.                                                *)

Max(S) == CHOOSE x \in S : \A y \in S : y <= x
Min(S) == CHOOSE x \in S : \A y \in S : x <= y

\* Go's & and | on non-negative ints
RECURSIVE BitAnd(_, _)
BitAnd(a, b) ==
    IF a = 0 \/ b = 0 THEN 0
    ELSE (IF a % 2 = 1 /\ b % 2 = 1 THEN 1 ELSE 0) + 2 * BitAnd(a \div 2, b \div 2)

RECURSIVE BitOr(_, _)
BitOr(a, b) ==
    IF a = 0 THEN b
    ELSE IF b = 0 THEN a
    ELSE (IF a % 2 = 1 \/ b % 2 = 1 THEN 1 ELSE 0) + 2 * BitOr(a \div 2, b \div 2)

DigitChars == <<"0", "1", "2", "3", "4", "5", "6", "7", "8", "9">>

\* regexp class [0-9]
IsDigit(ch) == \E i \in 1..10 : DigitChars[i] = ch

DigitVal(ch) == (CHOOSE i \in 1..10 : DigitChars[i] = ch) - 1

\* regexp class \s: [\t\n\f\r ]
IsSpace(ch) == ch \in {" ", "\t", "\n", "\f", "\r"}

\* s[a..b], empty when a > b
Sub(s, a, b) == IF a > b THEN <<>> ELSE SubSeq(s, a, b)

\* decimal digits of n, as the daemon prints a status code
RECURSIVE Itoa(_)
Itoa(n) == IF n < 10 THEN <<DigitChars[n + 1]>>
           ELSE Itoa(n \div 10) \o <<DigitChars[(n % 10) + 1]>>

\* bytes.TrimRight(lineb, "\n")
RECURSIVE TrimRightNL(_)
TrimRightNL(s) ==
    IF Len(s) > 0 /\ s[Len(s)] = "\n" THEN TrimRightNL(Sub(s, 1, Len(s) - 1)) ELSE s

MaxInt64Digits ==
    <<"9", "2", "2", "3", "3", "7", "2", "0", "3", "6", "8", "5", "4", "7", "7", "5", "8", "0", "7">>

RECURSIVE StripZeros(_)
StripZeros(ds) == IF Len(ds) > 1 /\ ds[1] = "0" THEN StripZeros(Tail(ds)) ELSE ds

\* ds > es for two digit strings of the same length
RECURSIVE DigitsGreater(_, _)
DigitsGreater(ds, es) ==
    IF Len(ds) = 0 THEN FALSE
    ELSE IF DigitVal(ds[1]) # DigitVal(es[1]) THEN DigitVal(ds[1]) > DigitVal(es[1])
    ELSE DigitsGreater(Tail(ds), Tail(es))

RECURSIVE DigitsValue(_, _)
DigitsValue(ds, acc) ==
    IF Len(ds) = 0 THEN acc ELSE DigitsValue(Tail(ds), acc * 10 + DigitVal(ds[1]))

\* strconv.Atoi on a string of digits (int is 64 bits wide): a value above
\* 9223372036854775807 is a range error.  The value is compared digit by digit,
\* since it does not fit the model checker's integers.
Atoi(ds) ==
    LET z == StripZeros(ds) IN
    IF Len(z) > Len(MaxInt64Digits)
       \/ (Len(z) = Len(MaxInt64Digits) /\ DigitsGreater(z, MaxInt64Digits))
    THEN [ok |-> FALSE, v |-> 0]
    ELSE [ok |-> TRUE, v |-> DigitsValue(z, 0)]

-----------------------------------------------------------------------------
(* responseRe:                                                             *)
(*   ^([0-9]+)\s<([^:]+)(?::\s+(.+?))?>\s?(.+?)?(?:->(.{0,}))?$            *)
(* (the last group is written .{0,} here for the source's dot-star),       *)
(* matched leftmost-first against a line that holds no "\n" (ReadBytes     *)
(* ends a line at the first "\n" and TrimRight removes it), so "." matches *)
(* every character of it.                                                  *)

\* [0-9]+ is followed by \s, so it takes the whole leading run of digits
DigitRun(s) == Max({d \in 0..Len(s) : \A i \in 1..d : IsDigit(s[i])})

\* [^:]+ from a: the last index of the run of non-colon characters (a-1 when empty)
NonColonEnd(s, a) == Max({m \in (a - 1)..Len(s) : \A i \in a..m : s[i] # ":"})

\* the run of \s characters that starts at index a
SpaceRun(s, a) == Max({k \in 0..(Len(s) - a + 1) : \A i \in a..(a + k - 1) : IsSpace(s[i])})

\* (?::\s+(.+?))?> with the colon at index c: the pairs <<k, g>> of a number k of
\* \s characters and the index g of the closing ">" that match
SigChoices(s, c) ==
    {kg \in (1..SpaceRun(s, c + 1)) \X (1..Len(s)) :
        /\ kg[2] >= c + kg[1] + 2
        /\ s[kg[2]] = ">"}

\* \s+ is greedy (most spaces first) and .+? is lazy (nearest ">" first)
SigPick(s, c) ==
    LET k == Max({kg[1] : kg \in SigChoices(s, c)})
        g == Min({kg[2] : kg \in {x \in SigChoices(s, c) : x[1] = k}})
    IN <<k, g>>

\* whether the rest of the pattern can match once the status ends at index e
StatusEndOK(s, e) ==
    /\ e < Len(s)
    /\ \/ s[e + 1] = ">"
       \/ s[e + 1] = ":" /\ SigChoices(s, e + 1) # {}

\* (.+?)?(?:->(.{0,}))?$ on the tail t: the filename group prefers to match and is
\* lazy, so it is the shortest non-empty prefix that is followed by "->" or
\* is the whole tail
TailSplit(t) ==
    IF Len(t) = 0 THEN [fn |-> <<>>, an |-> <<>>]
    ELSE LET k == Min({j \in 1..Len(t) :
                        \/ j = Len(t)
                        \/ j + 2 <= Len(t) /\ t[j + 1] = "-" /\ t[j + 2] = ">"})
         IN [fn |-> Sub(t, 1, k), an |-> Sub(t, k + 3, Len(t))]

\* responseRe.FindSubmatch: [ok, m] with m[1..6] standing for mb[0..5]
responseRe(s) ==
    LET d == DigitRun(s)
        a == d + 3
        m == NonColonEnd(s, a)
        ends == {e \in a..m : StatusEndOK(s, e)}
    IN  IF d < 1 \/ Len(s) < d + 2 \/ ~IsSpace(s[d + 1]) \/ s[d + 2] # "<" \/ ends = {}
        THEN [ok |-> FALSE, m |-> <<>>]
        ELSE LET e == Max(ends)
                 hasSig == s[e + 1] = ":"
                 kg == IF hasSig THEN SigPick(s, e + 1) ELSE <<0, e + 1>>
                 q == kg[2]
                 sig == IF hasSig THEN Sub(s, e + 2 + kg[1], q - 1) ELSE <<>>
                 t0 == IF q < Len(s) /\ IsSpace(s[q + 1]) THEN q + 2 ELSE q + 1
                 ts == TailSplit(Sub(s, t0, Len(s)))
             IN [ok |-> TRUE,
                 m |-> <<s, Sub(s, 1, d), Sub(s, a, e), sig, ts.fn, ts.an>>]

-----------------------------------------------------------------------------
(* Client.processResponse, one line.                                       *)

SoftErrorMask ==
    BitOr(UserError, BitOr(RestrictionError, BitOr(SystemError,
        BitOr(InternalError, BitOr(SkipError, DisinfectError)))))

InfectedMask_NoDisinfect == BitOr(Infected, HeuristicMatch)

InfectedMask == BitOr(Infected, BitOr(DisinfectError, HeuristicMatch))

\* rs.StatusCode&(UserError|...|DisinfectError) != 0
IsSoftError(code) == BitAnd(code, SoftErrorMask) # 0

\* rs.StatusCode&(Infected|DisinfectError|HeuristicMatch) != 0
IsInfected(code) == BitAnd(code, InfectedMask) # 0

ParseLine_SwapNames(lineb) ==
    LET mb == responseRe(TrimRightNL(lineb)) IN
    IF ~mb.ok THEN [kind |-> "nomatch"]
    ELSE LET sc == Atoi(mb.m[2]) IN
         IF ~sc.ok THEN [kind |-> "atoi"]
         ELSE [kind |-> "resp",
               rs |-> [StatusCode |-> sc.v,
                       Status |-> mb.m[3],
                       Signature |-> mb.m[4],
                       Filename |-> mb.m[6],
                       ArchiveItem |-> mb.m[5],
                       Raw |-> mb.m[1],
                       Infected |-> IsInfected(sc.v)]]

\* What the loop body makes of one line read from the connection:
\*   "nomatch"  the line does not match responseRe
\*   "atoi"     the status code does not convert
\*   "resp"     a Response rs
ParseLine(lineb) ==
    LET mb == responseRe(TrimRightNL(lineb)) IN
    IF ~mb.ok THEN [kind |-> "nomatch"]
    ELSE LET sc == Atoi(mb.m[2]) IN
         IF ~sc.ok THEN [kind |-> "atoi"]
         ELSE [kind |-> "resp",
               rs |-> [StatusCode |-> sc.v,
                       Status |-> mb.m[3],
                       Signature |-> mb.m[4],
                       Filename |-> mb.m[5],
                       ArchiveItem |-> mb.m[6],
                       Raw |-> mb.m[1],
                       Infected |-> IsInfected(sc.v)]]

\* the status-code suffixes the parser is applied to in SpecParse
TailOK ==
    <<" ", "<", "c", "l", "e", "a", "n", ">", " ", "a", "\n">>
TailEicar ==
    <<" ", "<", "i", "n", "f", "e", "c", "t", "e", "d", ":", " ", "E", "I", "C", "A", "R", ">", " ", "a", "\n">>
TailArchive ==
    <<" ", "<", "i", "n", "f", "e", "c", "t", "e", "d", ":", " ", "E", "I", "C", "A", "R", ">", " ", "a", "-", ">", "b", "\n">>
TailBad ==
    <<" ", "c", "l", "e", "a", "n", " ", "a", "\n">>

\* a line that ends after the status
TailNoFile ==
    <<" ", "<", "c", "l", "e", "a", "n", ">", "\n">>

ProbeTails == {TailOK, TailEicar, TailArchive, TailBad, TailNoFile}

-----------------------------------------------------------------------------
(* Lines the daemon may send.                                              *)

LineClean ==
    <<"0", " ", "<", "c", "l", "e", "a", "n", ">", " ", "a", "\n">>
LineSoftA ==
    <<"4", " ", "<", "u", "s", "e", "r", ">", " ", "a", "\n">>
LineSoftB ==
    <<"6", "5", " ", "<", "s", "k", "i", "p", ":", " ", "X", ">", " ", "b", "\n">>
LineBad ==
    <<"0", " ", "c", "l", "e", "a", "n", " ", "a", "\n">>
LineHuge ==
    <<"9", "9", "9", "9", "9", "9", "9", "9", "9", "9", "9", "9", "9", "9", "9", "9", "9", "9",
     "9", "9", " ", "<", "c", "l", "e", "a", "n", ">", " ", "a", "\n">>
LineHelp ==
    <<"F", "P", "S", "C", "A", "N", "D", ":", "1", " ", "E", "N", "G", "I", "N", "E", ":", "2",
     " ", "P", "R", "O", "T", "O", "C", "O", "L", ":", "3", " ", "S", "I", "G", "N", "A", "T", "U",
     "R", "E", ":", "4", " ", "U", "P", "T", "I", "M", "E", ":", "5", "\n">>
\* a handshake line with a word after the last field
LineHelpTail ==
    <<"F", "P", "S", "C", "A", "N", "D", ":", "1", " ", "E", "N", "G", "I", "N", "E", ":", "2",
     " ", "P", "R", "O", "T", "O", "C", "O", "L", ":", "3", " ", "S", "I", "G", "N", "A", "T", "U",
     "R", "E", ":", "4", " ", "U", "P", "T", "I", "M", "E", ":", "5", " ", "x", "\n">>
LineBlank ==
    <<"\n">>

\* answers to a scan command, and answers to HELP
ScanLines == {LineClean, LineSoftA, LineSoftB, LineBad, LineHuge}
HelpLines == {LineHelp, LineHelpTail, LineBlank, LineBad}

-----------------------------------------------------------------------------
(* helpRe:                                                                 *)
(*   ^FPSCAND:(\S+)\s*ENGINE:(\S+)\s*PROTOCOL:(\S+)\s*SIGNATURE:(\S+)\s*   *)
(*   UPTIME:(\S+)$                                                         *)

K1 == <<"F", "P", "S", "C", "A", "N", "D", ":">>
K2 == <<"E", "N", "G", "I", "N", "E", ":">>
K3 == <<"P", "R", "O", "T", "O", "C", "O", "L", ":">>
K4 == <<"S", "I", "G", "N", "A", "T", "U", "R", "E", ":">>
K5 == <<"U", "P", "T", "I", "M", "E", ":">>

HelpKeys == <<K1, K2, K3, K4, K5>>

\* \S+ from a: the last index of the run of non-space characters (a-1 when empty)
NonSpaceEnd(s, a) == Max({m \in (a - 1)..Len(s) : \A i \in a..m : ~IsSpace(s[i])})

\* the k-th keyword at index i, its greedy \S+ group, \s*, and the rest of the
\* pattern: g holds the groups from the k-th on
RECURSIVE HelpFrom(_, _, _)
HelpFrom(s, i, k) ==
    LET kw == HelpKeys[k]
        a == i + Len(kw)
        after(e) == e + 1 + SpaceRun(s, e + 1)
        Fail == [ok |-> FALSE, g |-> <<>>]
    IN  IF a - 1 > Len(s) \/ Sub(s, i, a - 1) # kw THEN Fail
        ELSE \* every end e of the group with the match of the rest from there,
             \* each computed once; the greatest end that lets the rest match wins
             CHOOSE r \in
                {IF \A c \in cands : ~c.r.ok THEN Fail
                 ELSE LET c == CHOOSE c \in cands :
                                 /\ c.r.ok
                                 /\ \A d \in cands : d.r.ok => d.e <= c.e
                      IN [ok |-> TRUE, g |-> <<Sub(s, a, c.e)>> \o c.r.g]
                 : cands \in
                    {{[e |-> e,
                       r |-> IF k = Len(HelpKeys) THEN [ok |-> e = Len(s), g |-> <<>>]
                             ELSE HelpFrom(s, after(e), k + 1)]
                      : e \in a..NonSpaceEnd(s, a)}}} : TRUE

helpRe_Never(s) == [ok |-> FALSE, g |-> <<>>]

\* helpRe.FindStringSubmatch: [ok, g] with g[1..5] standing for ms[1..5]
helpRe(s) == HelpFrom(s, 1, 1)

\* textproto.Reader.ReadLine drops the line's "\n" and a "\r" before it
StripEOL(b) ==
    LET n == IF Len(b) > 0 /\ b[Len(b)] = "\n" THEN Len(b) - 1 ELSE Len(b)
        m == IF n > 0 /\ b[n] = "\r" THEN n - 1 ELSE n
    IN Sub(b, 1, m)

-----------------------------------------------------------------------------
(* Errors, pointers and command names.                                     *)

\* an error value: its kind and, for the error built from a Response, the status
Err(k) == [k |-> k, s |-> <<>>]
Nil == Err("nil")

\* fmt.Errorf("%s", rs.Status)
SoftErr(status) == [k |-> "soft", s |-> status]

\* a nil *Response, and a pointer to rs
NilPtr == <<>>
Ptr(rs) == <<rs>>

\* Command.String
CommandNames_Swapped ==
    <<"", "HELP", "SCAN FILE", "SCAN STREAM", "SCAN", "QUEUE", "QUIT">>

\* the array n of Command.String: n[c] is CommandNames[c + 1]
CommandNames ==
    <<"", "HELP", "SCAN FILE", "SCAN STREAM", "QUEUE", "SCAN", "QUIT">>

\* Command.String
CommandString(c) ==
    IF c < Help \/ c > Quit THEN "" ELSE CommandNames[c + 1]

StatusCodeString_AnyBit(c) ==
    IF c = NoMatch THEN "No signature was matched"
    ELSE IF c > 0 /\ c % 2 = 1 THEN "Atleast one virus-infected object was found"
    ELSE ""

\* StatusCode.String
StatusCodeString(c) ==
    CASE c = NoMatch -> "No signature was matched"
      [] c = Infected -> "Atleast one virus-infected object was found"
      [] c = HeuristicMatch -> "Atleast one suspicious (heuristic match) object was found"
      [] c = UserError -> "Scanning interrupted by user"
      [] c = RestrictionError -> "Scan restriction caused scan to skip files"
      [] c = SystemError -> "Platform error"
      [] c = InternalError -> "Internal Engine error"
      [] c = SkipError -> "Atleast one object was not scanned"
      [] c = DisinfectError -> "Atleast one object was disinfected"
      [] OTHER -> ""

-----------------------------------------------------------------------------
(* Bounds of the sessions.                                                 *)

\* most paths handed to one scan call
MaxItems == 2
\* largest value handed to SetConnRetries
MaxRetries == 1
\* most commands put on one pipeline
MaxOps == 2
\* longest address handed to NewClient
MaxAddrLen == 4
\* largest Command value handed to Command.String
MaxCmd == 100

Paths == {"", "a", "b"}

RECURSIVE SeqsUpTo(_, _)
SeqsUpTo(S, k) ==
    IF k = 0 THEN {<<>>}
    ELSE SeqsUpTo(S, k - 1) \cup
         {Append(q, x) : q \in {s \in SeqsUpTo(S, k - 1) : Len(s) = k - 1}, x \in S}

PathLists == SeqsUpTo(Paths, MaxItems)

\* sizes os.Stat reports for the files named in a ScanStream call
FileSizes == {0, 2}

\* what os.Open and f.Stat make of a path
FileOutcomes == {[k |-> "open", n |-> 0], [k |-> "stat", n |-> 0]}
                    \cup {[k |-> "size", n |-> n] : n \in FileSizes}

\* io.Reader arguments of ScanReader: the kind, the unread bytes (Len() of the
\* in-memory readers, what io.Copy will read) and, for a file, what Stat reports
Readers ==
    {[kind |-> "Buffer", len |-> 2, size |-> 0, statok |-> TRUE],
     [kind |-> "BytesReader", len |-> 1, size |-> 0, statok |-> TRUE],
     [kind |-> "StringsReader", len |-> 0, size |-> 0, statok |-> TRUE],
     [kind |-> "File", len |-> 2, size |-> 2, statok |-> TRUE],
     [kind |-> "File", len |-> 1, size |-> 2, statok |-> TRUE],
     [kind |-> "File", len |-> 2, size |-> 2, statok |-> FALSE],
     [kind |-> "Other", len |-> 1, size |-> 0, statok |-> TRUE]}

NoReader == [kind |-> "none", len |-> 0, size |-> 0, statok |-> TRUE]

\* results of one DialTimeout
DialOutcomes == {"ok", "timeout", "refused"}

-----------------------------------------------------------------------------
(* The connection.                                                         *)

\* time.Time{}: no deadline
ZeroTime == 0

NoNet == [nsock |-> 0, state |-> "none", werr |-> "none", deadline |-> ZeroTime]
NewPipeline == [id |-> 0, request |-> 0, response |-> 0]

\* conn.SetDeadline(time.Now().Add(t)), kept as the time left; a closed
\* socket takes no deadline
SetDeadline(nt, t) == IF nt.state = "open" \/ nt.state = "eof" THEN [nt EXCEPT !.deadline = t] ELSE nt

\* results a write to the bufio.Writer of tc can have: its first error sticks
WriteOutcomes(nt) ==
    IF nt.werr # "none" THEN {nt.werr}
    ELSE IF nt.state = "closed" THEN {"io"}
    ELSE {"ok", "io"} \cup (IF nt.deadline # ZeroTime THEN {"timeout"} ELSE {})

AfterWrite(nt, o) == IF o = "ok" \/ nt.werr # "none" THEN nt ELSE [nt EXCEPT !.werr = o]

\* results a read of one line can have
ReadOutcomes(nt, Lines) ==
    IF nt.state = "closed" THEN {[k |-> "io", b |-> <<>>]}
    ELSE IF nt.state = "eof" THEN {[k |-> "EOF", b |-> <<>>]}
    ELSE {[k |-> "line", b |-> l] : l \in Lines}
            \cup {[k |-> "EOF", b |-> <<>>], [k |-> "io", b |-> <<>>]}
            \cup (IF nt.deadline # ZeroTime THEN {[k |-> "timeout", b |-> <<>>]} ELSE {})

AfterRead(nt, o) == IF o.k = "EOF" /\ nt.state = "open" THEN [nt EXCEPT !.state = "eof"] ELSE nt

SeqReady_Any(seqid, id) == TRUE

\* sequencer.Start(id) returns once the sequencer has reached id
SeqReady(seqid, id) == seqid = id

-----------------------------------------------------------------------------
(* Initial states.                                                         *)

\* what the file system holds at the path handed to ScanDir: the result of
\* os.Stat (ENOENT, another error such as ENOTDIR for a path below a regular
\* file, or a FileInfo), whether the FileInfo is a directory, and the
\* entries filepath.Walk visits below it, in its lexical order, each with the
\* kind of file it is
DirNames == <<"a", "b", "c">>
EntryKinds == {"regular", "dir", "other"}
WalkOf(kinds) ==
    LET present == {i \in 1..Len(kinds) : kinds[i] # "absent"}
        nth(k) == CHOOSE i \in present : Cardinality({j \in present : j <= i}) = k
    IN [k \in 1..Cardinality(present) |-> [path |-> DirNames[nth(k)], kind |-> kinds[nth(k)]]]
Walks == {WalkOf(kinds) : kinds \in [1..MaxItems -> EntryKinds \cup {"absent"}]}
NoDir == [stat |-> "none", isdir |-> FALSE, walk |-> <<>>]
Dirs ==
    {[stat |-> "ENOENT", isdir |-> FALSE, walk |-> <<>>],
     [stat |-> "ENOTDIR", isdir |-> FALSE, walk |-> <<>>],
     [stat |-> "ok", isdir |-> FALSE, walk |-> <<>>]}
    \cup {[stat |-> "ok", isdir |-> TRUE, walk |-> w] : w \in Walks}

\* f.IsDir() of a visited entry
IsDir(e) == e.kind = "dir"

\* the test of the walk function: if !f.IsDir() { fl = append(fl, path) }
KeepEntry(e) == ~IsDir(e)

\* fl after filepath.Walk: the paths of the entries kept, in the order visited
RECURSIVE Walked(_)
Walked(w) ==
    IF w = <<>> THEN <<>>
    ELSE (IF KeepEntry(Head(w)) THEN <<Head(w).path>> ELSE <<>>) \o Walked(Tail(w))

\* getFiles(d): only a not-exist error of os.Stat is returned; after any
\* other error stat is nil and stat.IsDir() is a nil pointer dereference
getFiles(d) ==
    IF d.stat = "ENOENT" THEN [out |-> "returned", fl |-> <<>>, err |-> Err("notexist")]
    ELSE IF d.stat # "ok" THEN [out |-> "panic", fl |-> <<>>, err |-> Nil]
    ELSE IF ~d.isdir THEN [out |-> "returned", fl |-> <<>>, err |-> Err("notdir")]
    ELSE [out |-> "returned", fl |-> Walked(d.walk), err |-> Nil]

NoProbe == [fn |-> "none", in |-> <<>>, out |-> [kind |-> "none"]]

\* "127.0.0.1:10200"
DefaultAddress ==
    <<"1", "2", "7", ".", "0", ".", "0", ".", "1", ":", "1", "0", "2", "0", "0">>

\* strings.Contains(s, ch) and strings.Count(s, ch) for a one-character ch
Contains(s, ch) == \E i \in 1..Len(s) : s[i] = ch
RECURSIVE Count(_, _)
Count(s, ch) ==
    IF s = <<>> THEN 0
    ELSE (IF Head(s) = ch THEN 1 ELSE 0) + Count(Tail(s), ch)

AddressInvalid_Never(address) == FALSE

\* the test NewClient applies to a non-empty address
AddressInvalid(address) == ~Contains(address, ":") \/ Count(address, ":") > 1

ClientAt_Retry(address) ==
    [address |-> address,
     connTimeout |-> defaultTimeout,
     connSleep |-> defaultSleep,
     cmdTimeout |-> defaultCmdTimeout,
     connRetries |-> 1,
     tc |-> 0,
     conn |-> 0]

\* the composite literal of NewClient: the fields it names, the others zero
ClientAt(address) ==
    [address |-> address,
     connTimeout |-> defaultTimeout,
     connSleep |-> defaultSleep,
     cmdTimeout |-> defaultCmdTimeout,
     connRetries |-> 0,
     tc |-> 0,
     conn |-> 0]

\* NewClient(address): (c, err); c is a tuple holding the Client, or the
\* empty tuple for a nil pointer; the error is "The supplied address is
\* invalid"
NewClientAt(address) ==
    IF address = <<>> THEN [kind |-> "result", c |-> <<ClientAt(DefaultAddress)>>, err |-> Nil]
    ELSE IF AddressInvalid(address)
         THEN [kind |-> "result", c |-> <<>>, err |-> Err("address")]
         ELSE [kind |-> "result", c |-> <<ClientAt(address)>>, err |-> Nil]

\* the Client NewClient("") returns
NewClient == NewClientAt(<<>>).c[1]

\* the locals of a handler on entry
Fresh(op, cmd) ==
    [op |-> op, cmd |-> cmd, p |-> <<>>, n |-> 0, in |-> NoReader,
     socks |-> net.nsock, rejected |-> FALSE, dialled |-> FALSE,
     i |-> 0, j |-> 0, conn |-> 0, id |-> 0, size |-> 0,
     derr |-> "none", dlog |-> <<>>, wire |-> <<>>, rlog |-> <<>>,
     r |-> <<>>, seen |-> FALSE, gerr |-> Nil, err |-> Nil,
     s |-> <<>>, info |-> <<>>, arg |-> 0, dir |-> NoDir, out |-> "none"]

InitClient(Callers) ==
    /\ client = NewClient
    /\ mu = 0
    /\ net = NoNet
    /\ pipe = NewPipeline
    /\ pc = [p \in Callers |-> "idle"]
    /\ loc = [p \in Callers |-> Fresh("none", 0)]

-----------------------------------------------------------------------------
(* Steps shared by the handlers.                                           *)

Goto(p, l) == pc' = [pc EXCEPT ![p] = l]

\* where a handler's inner command returns to: Info and Close go on after
\* basicCmd, the scan calls hand the result to their caller
RetPc(op) ==
    CASE op = "Info" -> "info"
      [] op = "Close" -> "close"
      [] OTHER -> "done"

\* the inner command returns e, with l the locals at that point
Return(p, l, e) ==
    /\ loc' = [loc EXCEPT ![p] = [l EXCEPT !.err = e,
                  !.out = IF RetPc(l.op) = "done" THEN "returned" ELSE "none"]]
    /\ pc' = [pc EXCEPT ![p] = RetPc(l.op)]

\* a caller is free to start an operation; the number of commands put on a
\* pipeline and the number of sockets are capped
CanCall(p) ==
    /\ pc[p] \in {"idle", "done"}
    /\ pipe.id < MaxOps
    /\ net.nsock < MaxOps

-----------------------------------------------------------------------------
(* The public operations, on entry.                                        *)

\* a setter has run with argument v: the caller has its result
SetterDone(p, op, v) ==
    /\ loc' = [loc EXCEPT ![p] = [Fresh(op, 0) EXCEPT !.out = "returned", !.arg = v]]
    /\ Goto(p, "done")
    /\ UNCHANGED <<mu, net, pipe, probe>>

SetConnRetries_Raw(p, s) ==
    /\ pc[p] \in {"idle", "done"}
    /\ client' = [client EXCEPT !.connRetries = s]
    /\ SetterDone(p, "SetConnRetries", s)

\* SetConnRetries(s): negative values are stored as 0
SetConnRetries(p, s) ==
    /\ pc[p] \in {"idle", "done"}
    /\ client' = [client EXCEPT !.connRetries = IF s < 0 THEN 0 ELSE s]
    /\ SetterDone(p, "SetConnRetries", s)

\* SetConnTimeout(t)
SetConnTimeout(p, t) ==
    /\ pc[p] \in {"idle", "done"}
    /\ client' = [client EXCEPT !.connTimeout = t]
    /\ SetterDone(p, "SetConnTimeout", t)

SetCmdTimeout_Both(p, t) ==
    /\ pc[p] \in {"idle", "done"}
    /\ client' = [client EXCEPT !.cmdTimeout = t, !.connTimeout = t]
    /\ SetterDone(p, "SetCmdTimeout", t)

\* SetCmdTimeout(t)
SetCmdTimeout(p, t) ==
    /\ pc[p] \in {"idle", "done"}
    /\ client' = [client EXCEPT !.cmdTimeout = t]
    /\ SetterDone(p, "SetCmdTimeout", t)

\* SetConnSleep(s)
SetConnSleep(p, s) ==
    /\ pc[p] \in {"idle", "done"}
    /\ client' = [client EXCEPT !.connSleep = s]
    /\ SetterDone(p, "SetConnSleep", s)

\* Info() calls basicCmd(Help)
CallInfo(p) ==
    /\ CanCall(p)
    /\ loc' = [loc EXCEPT ![p] = Fresh("Info", Help)]
    /\ Goto(p, "lock")
    /\ UNCHANGED <<client, mu, net, pipe, probe>>

\* Close() calls basicCmd(Quit)
CallClose(p) ==
    /\ CanCall(p)
    /\ loc' = [loc EXCEPT ![p] = Fresh("Close", Quit)]
    /\ Goto(p, "lock")
    /\ UNCHANGED <<client, mu, net, pipe, probe>>

\* ScanFile(f) calls fileCmd(ScanFile, f)
CallScanFile(p, f) ==
    /\ CanCall(p)
    /\ loc' = [loc EXCEPT ![p] = [Fresh("ScanFile", ScanFile) EXCEPT !.p = <<f>>]]
    /\ Goto(p, "f_args")
    /\ UNCHANGED <<client, mu, net, pipe, probe>>

\* ScanFiles(f...) calls fileCmd(ScanFile, f...)
CallScanFiles(p, fs) ==
    /\ CanCall(p)
    /\ loc' = [loc EXCEPT ![p] = [Fresh("ScanFiles", ScanFile) EXCEPT !.p = fs]]
    /\ Goto(p, "f_args")
    /\ UNCHANGED <<client, mu, net, pipe, probe>>

\* ScanStream(f...) calls fileCmd(ScanStream, f...)
CallScanStream(p, fs) ==
    /\ CanCall(p)
    /\ loc' = [loc EXCEPT ![p] = [Fresh("ScanStream", ScanStream) EXCEPT !.p = fs]]
    /\ Goto(p, "f_args")
    /\ UNCHANGED <<client, mu, net, pipe, probe>>

\* ScanDir(d) and ScanDirStream(d): getFiles(d), and fileCmd(cmd, fl...) when
\* it returned no error
CallDir(p, op, cmd, d) ==
    /\ CanCall(p)
    /\ LET g == getFiles(d)
           l == [Fresh(op, cmd) EXCEPT !.dir = d]
       IN IF g.out = "panic"
          THEN /\ loc' = [loc EXCEPT ![p] = [l EXCEPT !.out = "panic"]]
               /\ Goto(p, "done")
          ELSE IF g.err # Nil
          THEN /\ loc' = [loc EXCEPT ![p] = [l EXCEPT !.err = g.err, !.out = "returned"]]
               /\ Goto(p, "done")
          ELSE /\ loc' = [loc EXCEPT ![p] = [l EXCEPT !.p = g.fl]]
               /\ Goto(p, "f_args")
    /\ UNCHANGED <<client, mu, net, pipe, probe>>

CallScanDir(p, d) == CallDir(p, "ScanDir", ScanFile, d)
CallScanDirStream(p, d) == CallDir(p, "ScanDirStream", ScanStream, d)

\* ScanReader(i) calls readerCmd(i), which expects one response
CallScanReader(p, rdr) ==
    /\ CanCall(p)
    /\ loc' = [loc EXCEPT ![p] = [Fresh("ScanReader", ScanStream) EXCEPT !.in = rdr, !.n = 1]]
    /\ Goto(p, "lock")
    /\ UNCHANGED <<client, mu, net, pipe, probe>>

\* fileCmd: n := len(p); if n == 0 || p[0] == "" the call is rejected
NoPaths(p) == Len(p) = 0 \/ p[1] = ""

FileArgs(p) ==
    /\ pc[p] = "f_args"
    /\ LET l == [loc[p] EXCEPT !.n = Len(loc[p].p)] IN
       IF NoPaths(l.p)
       THEN Return(p, [l EXCEPT !.rejected = TRUE], Err("nopath"))
       ELSE loc' = [loc EXCEPT ![p] = l] /\ Goto(p, "lock")
    /\ UNCHANGED <<client, mu, net, pipe, probe>>

-----------------------------------------------------------------------------
(* The connection step: c.m.Lock(); if c.tc == nil { dial }; c.m.Unlock()  *)

MuFree_Always(m) == TRUE

MuFree(m) == m = 0

Lock(p) ==
    /\ pc[p] = "lock"
    /\ MuFree(mu)
    /\ mu' = p
    /\ Goto(p, "check")
    /\ UNCHANGED <<client, net, pipe, loc, probe>>

NeedDial_Always(c) == TRUE

\* if c.tc == nil
NeedDial(c) == c.tc = 0

CheckConn(p) ==
    /\ pc[p] = "check"
    /\ IF NeedDial(client)
       THEN loc' = [loc EXCEPT ![p].i = 0, ![p].dialled = TRUE] /\ Goto(p, "dial")
       ELSE Goto(p, "unlock") /\ UNCHANGED loc
    /\ UNCHANGED <<client, mu, net, pipe, probe>>

DialLoopCond_Short(i, retries) == i < retries

\* for i := 0; i <= c.connRetries; i++
DialLoopCond(i, retries) == i <= retries

\* if e, ok := err.(net.Error); ok && e.Timeout()
IsTimeout(o) == o = "timeout"

\* one pass of the loop in dial: DialTimeout, and after a timeout Sleep and continue
DialAttempt(p, Outcomes) ==
    /\ pc[p] = "dial"
    /\ DialLoopCond(loc[p].i, client.connRetries)
    /\ \E o \in Outcomes :
        LET ev == [e |-> "dial", o |-> o, t |-> client.connTimeout]
            sl == [e |-> "sleep", o |-> "", t |-> client.connSleep]
        IN IF IsTimeout(o)
           THEN /\ loc' = [loc EXCEPT ![p].dlog = @ \o <<ev, sl>>,
                                      ![p].i = @ + 1,
                                      ![p].derr = o,
                                      ![p].conn = 0]
                /\ UNCHANGED <<pc, net>>
           ELSE /\ loc' = [loc EXCEPT ![p].dlog = Append(@, ev),
                                      ![p].derr = IF o = "ok" THEN "nil" ELSE o,
                                      ![p].conn = IF o = "ok" THEN net.nsock + 1 ELSE 0]
                /\ net' = [net EXCEPT !.nsock = IF o = "ok" THEN @ + 1 ELSE @]
                /\ Goto(p, "dialret")
    /\ UNCHANGED <<client, mu, pipe, probe>>

\* the loop ends with every attempt timed out
DialExhausted(p) ==
    /\ pc[p] = "dial"
    /\ ~DialLoopCond(loc[p].i, client.connRetries)
    /\ Goto(p, "dialret")
    /\ UNCHANGED <<client, mu, net, pipe, loc, probe>>

\* if c.conn, err = c.dial(); err != nil { c.m.Unlock(); return }
DialFail(p) ==
    /\ pc[p] = "dialret"
    /\ loc[p].derr # "nil"
    /\ client' = [client EXCEPT !.conn = loc[p].conn]
    /\ mu' = 0
    /\ Return(p, [loc[p] EXCEPT !.dlog = <<>>], Err(loc[p].derr))
    /\ UNCHANGED <<net, pipe, probe>>

\* c.tc = textproto.NewConn(c.conn)
DialInstall(p) ==
    /\ pc[p] = "dialret"
    /\ loc[p].derr = "nil"
    /\ client' = [client EXCEPT !.conn = loc[p].conn, !.tc = loc[p].conn]
    /\ net' = [net EXCEPT !.state = "open", !.werr = "none", !.deadline = ZeroTime]
    /\ pipe' = NewPipeline
    /\ loc' = [loc EXCEPT ![p].dlog = <<>>]
    /\ Goto(p, "unlock")
    /\ UNCHANGED <<mu, probe>>

\* where each handler goes on after the connection step
AfterConnect(op) ==
    CASE op \in {"Info", "Close"} -> "b_cmd"
      [] op = "ScanReader" -> "r_switch"
      [] OTHER -> "f_next"

Unlock(p) ==
    /\ pc[p] = "unlock"
    /\ mu' = 0
    /\ Goto(p, AfterConnect(loc[p].op))
    /\ UNCHANGED <<client, net, pipe, loc, probe>>

-----------------------------------------------------------------------------
(* basicCmd, after the connection step.                                    *)

\* an attempted write of one line, or of n bytes of payload
\* (PrintfLine with its format and arguments, io.Copy with its byte count),
\* whether it succeeded, and the deadline in force
WLine(f, cmd, arg, size, o, nt) ==
    [k |-> "line", fmt |-> f, cmd |-> CommandString(cmd), arg |-> arg, size |-> size,
     ok |-> o = "ok", dl |-> nt.deadline]
WData(n, o, nt) ==
    [k |-> "data", fmt |-> "", cmd |-> "", arg |-> "", size |-> n,
     ok |-> o = "ok", dl |-> nt.deadline]

\* a read and the deadline in force when it was made
RRead(o, nt) == [k |-> o.k, b |-> o.b, dl |-> nt.deadline]

\* defer c.conn.SetDeadline(ZeroTime) is registered, the deadline is set, and
\* tc.Cmd takes the next pipeline id
BasicCmdStart(p) ==
    /\ pc[p] = "b_cmd"
    /\ net' = SetDeadline(net, client.cmdTimeout)
    /\ loc' = [loc EXCEPT ![p].id = pipe.id]
    /\ pipe' = [pipe EXCEPT !.id = @ + 1]
    /\ Goto(p, "b_sreq")
    /\ UNCHANGED <<client, mu, probe>>

\* tc.Cmd: StartRequest(id)
BasicStartRequest(p) ==
    /\ pc[p] = "b_sreq"
    /\ SeqReady(pipe.request, loc[p].id)
    /\ Goto(p, "b_write")
    /\ UNCHANGED <<client, mu, net, pipe, loc, probe>>

\* tc.Cmd: PrintfLine, EndRequest(id); on an error basicCmd returns at once,
\* before StartResponse, and only the deferred SetDeadline runs
BasicWrite(p) ==
    /\ pc[p] = "b_write"
    /\ \E o \in WriteOutcomes(net) :
        LET l == [loc[p] EXCEPT !.wire = Append(@, WLine("%s", loc[p].cmd, "", 0, o, net))]
        IN IF o = "ok"
           THEN /\ loc' = [loc EXCEPT ![p] = l]
                /\ Goto(p, "b_sresp")
                /\ UNCHANGED net
           ELSE /\ net' = SetDeadline(AfterWrite(net, o), ZeroTime)
                /\ Return(p, l, Err(o))
    /\ pipe' = [pipe EXCEPT !.request = @ + 1]
    /\ UNCHANGED <<client, mu, probe>>

\* StartResponse(id); for Quit the function returns here and its deferred
\* calls run: EndResponse(id), then SetDeadline(ZeroTime)
BasicStartResponse(p) ==
    /\ pc[p] = "b_sresp"
    /\ SeqReady(pipe.response, loc[p].id)
    /\ IF loc[p].cmd = Quit
       THEN /\ pipe' = [pipe EXCEPT !.response = @ + 1]
            /\ net' = SetDeadline(net, ZeroTime)
            /\ Return(p, loc[p], Nil)
       ELSE /\ Goto(p, "b_read")
            /\ UNCHANGED <<net, pipe, loc>>
    /\ UNCHANGED <<client, mu, probe>>

\* r, err = c.tc.ReadLine(); a failed read ends the function
BasicRead(p, Lines) ==
    /\ pc[p] = "b_read"
    /\ LET nt == SetDeadline(net, client.cmdTimeout) IN
       \E o \in ReadOutcomes(nt, Lines) :
        LET l == [loc[p] EXCEPT !.rlog = Append(@, RRead(o, nt))] IN
        IF o.k = "line" /\ l.cmd = Help
        THEN /\ loc' = [loc EXCEPT ![p] = [l EXCEPT !.s = StripEOL(o.b)]]
             /\ Goto(p, "b_read2")
             /\ net' = nt
             /\ UNCHANGED pipe
        ELSE /\ pipe' = [pipe EXCEPT !.response = @ + 1]
             /\ net' = SetDeadline(AfterRead(nt, o), ZeroTime)
             /\ IF o.k = "line"
                THEN Return(p, [l EXCEPT !.s = StripEOL(o.b)], Nil)
                ELSE Return(p, l, Err(o.k))
    /\ UNCHANGED <<client, mu, probe>>

\* if cmd == Help: a second ReadLine whose text is dropped
BasicRead2(p, Lines) ==
    /\ pc[p] = "b_read2"
    /\ LET nt == SetDeadline(net, client.cmdTimeout) IN
       \E o \in ReadOutcomes(nt, Lines) :
        LET l == [loc[p] EXCEPT !.rlog = Append(@, RRead(o, nt))] IN
        /\ pipe' = [pipe EXCEPT !.response = @ + 1]
        /\ net' = SetDeadline(AfterRead(nt, o), ZeroTime)
        /\ Return(p, l, IF o.k = "line" THEN Nil ELSE Err(o.k))
    /\ UNCHANGED <<client, mu, probe>>

\* Info, after basicCmd: the error is handed on, or the line is matched
\* against helpRe
InfoResult(p) ==
    /\ pc[p] = "info"
    /\ LET l == [loc[p] EXCEPT !.out = "returned"]
           ms == helpRe(l.s)
       IN loc' = [loc EXCEPT ![p] =
                    IF l.err # Nil THEN l
                    ELSE IF ~ms.ok THEN [l EXCEPT !.err = Err("invalid")]
                    ELSE [l EXCEPT !.info = ms.g]]
    /\ Goto(p, "done")
    /\ UNCHANGED <<client, mu, net, pipe, probe>>

\* Close, after basicCmd: c.tc.Close() whatever basicCmd returned; on a nil
\* tc this is a nil pointer dereference
CloseTc(p) ==
    /\ pc[p] = "close"
    /\ IF client.tc = 0
       THEN /\ loc' = [loc EXCEPT ![p].out = "panic"]
            /\ UNCHANGED net
       ELSE /\ loc' = [loc EXCEPT ![p].out = "returned"]
            /\ net' = [net EXCEPT !.state = "closed", !.deadline = ZeroTime]
    /\ Goto(p, "done")
    /\ UNCHANGED <<client, mu, pipe, probe>>

-----------------------------------------------------------------------------
(* fileCmd, fileScan, streamScan and streamCmd, after the connection step. *)

\* a failed request step of fileCmd or readerCmd: EndRequest(id), return err;
\* StartResponse and EndResponse are not called, the deferred SetDeadline runs
ReqFail(p, l, nt, e) ==
    /\ pipe' = [pipe EXCEPT !.request = @ + 1]
    /\ net' = SetDeadline(nt, ZeroTime)
    /\ Return(p, l, e)

PrintfLine_NoDeadline(p, f, cmd, arg, size, okpc, j) ==
    \E o \in WriteOutcomes(net) :
        LET l == [loc[p] EXCEPT !.wire = Append(@, WLine(f, cmd, arg, size, o, net)), !.j = j]
        IN IF o = "ok"
           THEN /\ loc' = [loc EXCEPT ![p] = l]
                /\ Goto(p, okpc)
                /\ UNCHANGED <<net, pipe>>
           ELSE ReqFail(p, l, AfterWrite(net, o), Err(o))

\* c.conn.SetDeadline(now + cmdTimeout); err = c.tc.PrintfLine(...): on
\* success the handler goes on at okpc with loop index j
PrintfLine(p, f, cmd, arg, size, okpc, j) ==
    LET nt == SetDeadline(net, client.cmdTimeout) IN
    \E o \in WriteOutcomes(nt) :
        LET l == [loc[p] EXCEPT !.wire = Append(@, WLine(f, cmd, arg, size, o, nt)), !.j = j]
        IN IF o = "ok"
           THEN /\ loc' = [loc EXCEPT ![p] = l]
                /\ Goto(p, okpc)
                /\ net' = nt
                /\ UNCHANGED pipe
           ELSE ReqFail(p, l, AfterWrite(nt, o), Err(o))

\* defer SetDeadline(ZeroTime); id := c.tc.Next()
FileNext(p) ==
    /\ pc[p] = "f_next"
    /\ loc' = [loc EXCEPT ![p].id = pipe.id]
    /\ pipe' = [pipe EXCEPT !.id = @ + 1]
    /\ Goto(p, "f_sreq")
    /\ UNCHANGED <<client, mu, net, probe>>

Batch_Always(n) == TRUE

\* fileScan and streamScan: if n > 1 the items go between QUEUE and SCAN
Batch(n) == n > 1

\* c.tc.StartRequest(id), then into streamScan or fileScan
FileStartRequest(p) ==
    /\ pc[p] = "f_sreq"
    /\ SeqReady(pipe.request, loc[p].id)
    /\ Goto(p, IF loc[p].cmd = ScanStream
               THEN (IF Batch(loc[p].n) THEN "ss_queue" ELSE "sc_open")
               ELSE (IF Batch(loc[p].n) THEN "fs_queue" ELSE "fs_one"))
    /\ loc' = [loc EXCEPT ![p].j = 1]
    /\ UNCHANGED <<client, mu, net, pipe, probe>>

\* fileScan, n > 1: QUEUE
FsQueue(p) ==
    /\ pc[p] = "fs_queue"
    /\ PrintfLine(p, "%s", Queue, "", 0, "fs_item", 1)
    /\ UNCHANGED <<client, mu, probe>>

\* fileScan, n > 1: for _, fn := range p: SCAN FILE fn
FsItem(p) ==
    /\ pc[p] = "fs_item"
    /\ LET j == loc[p].j IN
       PrintfLine(p, "%s %s", ScanFile, loc[p].p[j], 0,
                  IF j = Len(loc[p].p) THEN "fs_scan" ELSE "fs_item", j + 1)
    /\ UNCHANGED <<client, mu, probe>>

\* fileScan, n > 1: SCAN
FsScan(p) ==
    /\ pc[p] = "fs_scan"
    /\ PrintfLine(p, "%s", ScanQueue, "", 0, "f_flush", loc[p].j)
    /\ UNCHANGED <<client, mu, probe>>

\* fileScan, n = 1: SCAN FILE p[0]
FsOne(p) ==
    /\ pc[p] = "fs_one"
    /\ PrintfLine(p, "%s %s", ScanFile, loc[p].p[1], 0, "f_flush", 1)
    /\ UNCHANGED <<client, mu, probe>>

\* streamScan, n > 1: QUEUE
SsQueue(p) ==
    /\ pc[p] = "ss_queue"
    /\ PrintfLine(p, "%s", Queue, "", 0, "sc_open", 1)
    /\ UNCHANGED <<client, mu, probe>>

\* streamCmd: os.Open(fn) and f.Stat()
ScOpen(p, Files) ==
    /\ pc[p] = "sc_open"
    /\ \E f \in Files :
        IF f.k = "size"
        THEN /\ loc' = [loc EXCEPT ![p].size = f.n]
             /\ Goto(p, "sc_line")
             /\ UNCHANGED <<net, pipe>>
        ELSE ReqFail(p, loc[p], net, Err(f.k))
    /\ UNCHANGED <<client, mu, probe>>

\* streamCmd: SCAN STREAM fn SIZE stat.Size()
ScLine(p) ==
    /\ pc[p] = "sc_line"
    /\ PrintfLine(p, "%s %s SIZE %d", ScanStream, loc[p].p[loc[p].j], loc[p].size,
                  "sc_copy", loc[p].j)
    /\ UNCHANGED <<client, mu, probe>>

\* c.conn.SetDeadline(now + cmdTimeout); io.Copy(c.tc.Writer.W, src) of n bytes
Copy(p, n, okpc) ==
    LET nt == SetDeadline(net, client.cmdTimeout) IN
    \E o \in WriteOutcomes(nt) :
        LET l == [loc[p] EXCEPT !.wire = Append(@, WData(n, o, nt))]
        IN IF o = "ok"
           THEN /\ loc' = [loc EXCEPT ![p] = l]
                /\ Goto(p, okpc)
                /\ net' = nt
                /\ UNCHANGED pipe
           ELSE ReqFail(p, l, AfterWrite(nt, o), Err(o))

\* streamCmd: the file is copied from its start, stat.Size() bytes of it
ScCopy(p) ==
    /\ pc[p] = "sc_copy"
    /\ Copy(p, loc[p].size, "sc_flush")
    /\ UNCHANGED <<client, mu, probe>>

\* c.tc.W.Flush() with its error dropped (the writer keeps it)
Flush(nt) == {AfterWrite(nt, o) : o \in WriteOutcomes(nt)}

\* streamCmd: Flush, the deferred f.Close(), and back in streamScan the next
\* path, SCAN, or the end of the request
ScFlush(p) ==
    /\ pc[p] = "sc_flush"
    /\ net' \in Flush(net)
    /\ LET j == loc[p].j IN
       IF Batch(loc[p].n)
       THEN IF j = Len(loc[p].p)
            THEN Goto(p, "ss_scan") /\ UNCHANGED loc
            ELSE Goto(p, "sc_open") /\ loc' = [loc EXCEPT ![p].j = j + 1]
       ELSE Goto(p, "f_flush") /\ UNCHANGED loc
    /\ UNCHANGED <<client, mu, pipe, probe>>

\* streamScan, n > 1: SCAN
SsScan(p) ==
    /\ pc[p] = "ss_scan"
    /\ PrintfLine(p, "%s", ScanQueue, "", 0, "f_flush", loc[p].j)
    /\ UNCHANGED <<client, mu, probe>>

\* c.tc.W.Flush() with nothing buffered (every PrintfLine flushed), then
\* c.tc.EndRequest(id)
FileFlush(p) ==
    /\ pc[p] = "f_flush"
    /\ pipe' = [pipe EXCEPT !.request = @ + 1]
    /\ Goto(p, "f_sresp")
    /\ UNCHANGED <<client, mu, net, loc, probe>>

-----------------------------------------------------------------------------
(* readerCmd, after the connection step.                                   *)

HasLength_Any(in) == TRUE

\* the cases of the type switch: *bytes.Buffer, *bytes.Reader,
\* *strings.Reader and *os.File; any other reader takes the default case
HasLength(in) == in.kind \in {"Buffer", "BytesReader", "StringsReader", "File"}

\* the type switch: the in-memory readers report Len(), a file reports
\* stat.Size(), any other reader is refused; then id := c.tc.Next()
ReaderSwitch(p) ==
    /\ pc[p] = "r_switch"
    /\ LET in == loc[p].in IN
       IF HasLength(in) /\ (in.kind = "File" => in.statok)
       THEN /\ loc' = [loc EXCEPT ![p].size = IF in.kind = "File" THEN in.size ELSE in.len,
                                  ![p].id = pipe.id]
            /\ pipe' = [pipe EXCEPT !.id = @ + 1]
            /\ Goto(p, "r_sreq")
            /\ UNCHANGED net
       ELSE /\ net' = SetDeadline(net, ZeroTime)
            /\ Return(p, loc[p], Err(IF in.kind = "File" THEN "stat" ELSE "length"))
            /\ UNCHANGED pipe
    /\ UNCHANGED <<client, mu, probe>>

\* c.tc.StartRequest(id)
ReaderStartRequest(p) ==
    /\ pc[p] = "r_sreq"
    /\ SeqReady(pipe.request, loc[p].id)
    /\ Goto(p, "r_line")
    /\ UNCHANGED <<client, mu, net, pipe, loc, probe>>

\* SCAN STREAM stream SIZE clen
ReaderLine(p) ==
    /\ pc[p] = "r_line"
    /\ PrintfLine(p, "%s stream SIZE %d", ScanStream, "", loc[p].size, "r_copy", 0)
    /\ UNCHANGED <<client, mu, probe>>

\* io.Copy(c.tc.Writer.W, i): the reader's unread bytes
ReaderCopy(p) ==
    /\ pc[p] = "r_copy"
    /\ Copy(p, loc[p].in.len, "r_flush")
    /\ UNCHANGED <<client, mu, probe>>

\* c.tc.W.Flush() with its error dropped; c.tc.EndRequest(id)
ReaderFlush(p) ==
    /\ pc[p] = "r_flush"
    /\ net' \in Flush(net)
    /\ pipe' = [pipe EXCEPT !.request = @ + 1]
    /\ Goto(p, "f_sresp")
    /\ UNCHANGED <<client, mu, loc, probe>>

-----------------------------------------------------------------------------
(* The response phase of fileCmd and readerCmd.                            *)

\* c.tc.StartResponse(id); defer c.tc.EndResponse(id); processResponse
\* begins with r = make([]*Response, 1).  The request is over: the paths and
\* the record of what was written are dropped, n holds the number of paths
StartResponse(p) ==
    /\ pc[p] = "f_sresp"
    /\ SeqReady(pipe.response, loc[p].id)
    /\ loc' = [loc EXCEPT ![p].r = <<NilPtr>>, ![p].seen = FALSE, ![p].gerr = Nil,
                          ![p].i = 0, ![p].wire = <<>>, ![p].p = <<>>]
    /\ Goto(p, "pr_read")
    /\ UNCHANGED <<client, mu, net, pipe, probe>>

StoreResp_Overwrite(r, seen, rs) == [r EXCEPT ![1] = Ptr(rs)]

\* if !seen { r[0] = &rs } else { r = append(r, &rs) }
StoreResp(r, seen, rs) == IF ~seen THEN [r EXCEPT ![1] = Ptr(rs)] ELSE Append(r, Ptr(rs))

FirstErr_Last(gerr, rs) == IF IsSoftError(rs.StatusCode) THEN SoftErr(rs.Status) ELSE gerr

\* if the status has a soft-error bit and gerr == nil, gerr is built from rs.Status
FirstErr(gerr, rs) ==
    IF IsSoftError(rs.StatusCode) /\ gerr = Nil THEN SoftErr(rs.Status) ELSE gerr

\* the statement after the loop: err = gerr, whatever err held
AfterLoop(err, gerr) == gerr

ReturnNow_AfterLoop(err, gerr) == gerr

\* a bare return inside the loop: the named result err goes back as it was
\* last assigned (by ReadBytes, by strconv.Atoi), the statement after the loop
\* is not run
ReturnNow(err, gerr) == err

Finish_NoReset(p, l, nt, e) ==
    /\ pipe' = [pipe EXCEPT !.response = @ + 1]
    /\ net' = nt
    /\ Return(p, l, e)

\* processResponse returns and fileCmd's (readerCmd's) deferred calls run:
\* EndResponse(id), then SetDeadline(ZeroTime)
Finish(p, l, nt, e) ==
    /\ pipe' = [pipe EXCEPT !.response = @ + 1]
    /\ net' = SetDeadline(nt, ZeroTime)
    /\ Return(p, l, e)

LoopCond_Inclusive(num, n) == num <= n

\* the condition of the loop for num := 0; num < n; num++
LoopCond(num, n) == num < n

\* one pass of the loop for num := 0; num < n; num++
ReadResponse(p, Lines) ==
    /\ pc[p] = "pr_read"
    /\ LoopCond(loc[p].i, loc[p].n)
    /\ LET nt == SetDeadline(net, client.cmdTimeout) IN
       \E o \in ReadOutcomes(nt, Lines) :
        LET l == [loc[p] EXCEPT !.rlog = Append(@, RRead(o, nt))]
            x == IF o.k = "line" THEN ParseLine(o.b) ELSE [kind |-> "none"]
        IN CASE o.k = "EOF" ->
                  Finish(p, l, AfterRead(nt, o), AfterLoop(Nil, l.gerr))
             [] o.k \in {"io", "timeout"} ->
                  Finish(p, l, nt, ReturnNow(Err(o.k), l.gerr))
             [] o.k = "line" /\ x.kind = "nomatch" ->
                  Finish(p, l, nt, AfterLoop(Err("malformed"), l.gerr))
             [] o.k = "line" /\ x.kind = "atoi" ->
                  Finish(p, l, nt, ReturnNow(Err("atoi"), l.gerr))
             [] o.k = "line" /\ x.kind = "resp" ->
                  LET m == [l EXCEPT !.r = StoreResp(l.r, l.seen, x.rs),
                                     !.seen = TRUE,
                                     !.gerr = FirstErr(l.gerr, x.rs),
                                     !.i = @ + 1]
                  IN IF LoopCond(m.i, m.n)
                     THEN /\ loc' = [loc EXCEPT ![p] = m]
                          /\ Goto(p, "pr_read")
                          /\ net' = nt
                          /\ UNCHANGED pipe
                     ELSE Finish(p, m, nt, AfterLoop(Nil, m.gerr))
    /\ UNCHANGED <<client, mu, probe>>

-----------------------------------------------------------------------------
(* The pure functions, applied to one input.                               *)

InitParse ==
    /\ InitClient({})
    /\ \E code \in 0..MaxCode, t \in ProbeTails :
        probe = [fn |-> "ParseLine", in |-> Itoa(code) \o t, out |-> [kind |-> "none"]]

ProbeParseLine ==
    /\ probe.fn = "ParseLine"
    /\ probe.out.kind = "none"
    /\ probe' = [probe EXCEPT !.out = ParseLine(probe.in)]
    /\ UNCHANGED <<client, mu, net, pipe, pc, loc>>

NextParse == ProbeParseLine

SpecParse == InitParse /\ [][NextParse]_vars

\* the addresses NewClient is applied to: every text of the characters of a
\* host:port pair up to the bound
AddrChars == {":", "h", "1"}
Addresses == UNION {[1..n -> AddrChars] : n \in 0..MaxAddrLen}

InitNew ==
    /\ InitClient({})
    /\ \E a \in Addresses :
        probe = [fn |-> "NewClient", in |-> a, out |-> [kind |-> "none"]]

\* c, err := NewClient(address): no step on the network
ProbeNewClient ==
    /\ probe.fn = "NewClient"
    /\ probe.out.kind = "none"
    /\ probe' = [probe EXCEPT !.out = NewClientAt(probe.in)]
    /\ UNCHANGED <<client, mu, net, pipe, pc, loc>>

NextNew == ProbeNewClient

SpecNew == InitNew /\ [][NextNew]_vars

\* the two String methods, applied to the values of their integer types
\* within the bounds, negative ones included
InitString ==
    /\ InitClient({})
    /\ \/ \E c \in -1..MaxCmd :
            probe = [fn |-> "Command.String", in |-> c, out |-> [kind |-> "none"]]
       \/ \E c \in -1..MaxCode :
            probe = [fn |-> "StatusCode.String", in |-> c, out |-> [kind |-> "none"]]

ProbeCommandString ==
    /\ probe.fn = "Command.String"
    /\ probe.out.kind = "none"
    /\ probe' = [probe EXCEPT !.out = [kind |-> "string", s |-> CommandString(probe.in)]]
    /\ UNCHANGED <<client, mu, net, pipe, pc, loc>>

ProbeStatusCodeString ==
    /\ probe.fn = "StatusCode.String"
    /\ probe.out.kind = "none"
    /\ probe' = [probe EXCEPT !.out = [kind |-> "string", s |-> StatusCodeString(probe.in)]]
    /\ UNCHANGED <<client, mu, net, pipe, pc, loc>>

NextString == ProbeCommandString \/ ProbeStatusCodeString

SpecString == InitString /\ [][NextString]_vars

-----------------------------------------------------------------------------
(* One caller.                                                             *)

Init == InitClient({1}) /\ probe = NoProbe

\* the caller starts an operation
Call(p) ==
    \/ \E s \in -1..MaxRetries : SetConnRetries(p, s)
    \/ CallInfo(p)
    \/ CallClose(p)
    \/ \E f \in Paths : CallScanFile(p, f)
    \/ \E fs \in PathLists : CallScanFiles(p, fs)
    \/ \E fs \in PathLists : CallScanStream(p, fs)
    \/ \E rdr \in Readers : CallScanReader(p, rdr)

\* the handler the caller is in takes its next step
Run(p) ==
    \/ FileArgs(p)
    \/ Lock(p)
    \/ CheckConn(p)
    \/ DialAttempt(p, DialOutcomes)
    \/ DialExhausted(p)
    \/ DialFail(p)
    \/ DialInstall(p)
    \/ Unlock(p)
    \/ BasicCmdStart(p)
    \/ BasicStartRequest(p)
    \/ BasicWrite(p)
    \/ BasicStartResponse(p)
    \/ BasicRead(p, HelpLines)
    \/ BasicRead2(p, HelpLines)
    \/ InfoResult(p)
    \/ CloseTc(p)
    \/ FileNext(p)
    \/ FileStartRequest(p)
    \/ FsQueue(p)
    \/ FsItem(p)
    \/ FsScan(p)
    \/ FsOne(p)
    \/ SsQueue(p)
    \/ ScOpen(p, FileOutcomes)
    \/ ScLine(p)
    \/ ScCopy(p)
    \/ ScFlush(p)
    \/ SsScan(p)
    \/ FileFlush(p)
    \/ ReaderSwitch(p)
    \/ ReaderStartRequest(p)
    \/ ReaderLine(p)
    \/ ReaderCopy(p)
    \/ ReaderFlush(p)
    \/ StartResponse(p)
    \/ ReadResponse(p, ScanLines)

Step(p) == Call(p) \/ Run(p)

Next == Step(1)

Spec == Init /\ [][Next]_vars

\* A handler that can take a step takes one: the goroutine is scheduled, and
\* every dial, read and write returns, with a result or an error, by its
\* timeout or deadline.
SpecLive == Init /\ [][Next]_vars /\ WF_vars(Run(1))

-----------------------------------------------------------------------------
(* Two callers on one Client, each running one handler at a time.  The     *)
(* daemon answers every command with one well-formed line, and the         *)
(* callers scan one file or one in-memory reader.                          *)

ConcCallers == {1, 2}
ConcReaders == {r \in Readers : r.kind = "Buffer"}

InitConc == InitClient(ConcCallers) /\ probe = NoProbe

StepConc(p) ==
    \/ CallInfo(p)
    \/ CallClose(p)
    \/ CallScanFile(p, "a")
    \/ \E rdr \in ConcReaders : CallScanReader(p, rdr)
    \/ FileArgs(p)
    \/ Lock(p)
    \/ CheckConn(p)
    \/ DialAttempt(p, DialOutcomes)
    \/ DialExhausted(p)
    \/ DialFail(p)
    \/ DialInstall(p)
    \/ Unlock(p)
    \/ BasicCmdStart(p)
    \/ BasicStartRequest(p)
    \/ BasicWrite(p)
    \/ BasicStartResponse(p)
    \/ BasicRead(p, {LineHelp})
    \/ BasicRead2(p, {LineBlank})
    \/ InfoResult(p)
    \/ CloseTc(p)
    \/ FileNext(p)
    \/ FileStartRequest(p)
    \/ FsOne(p)
    \/ FileFlush(p)
    \/ ReaderSwitch(p)
    \/ ReaderStartRequest(p)
    \/ ReaderLine(p)
    \/ ReaderCopy(p)
    \/ ReaderFlush(p)
    \/ StartResponse(p)
    \/ ReadResponse(p, {LineClean})

NextConc == \E p \in ConcCallers : StepConc(p)

SpecConc == InitConc /\ [][NextConc]_vars

-----------------------------------------------------------------------------
(* One caller that constructs the Client, configures it and asks for the   *)
(* daemon's handshake.                                                     *)

\* var c *Client, before NewClient has run
NoClient ==
    [address |-> <<>>, connTimeout |-> 0, connSleep |-> 0, cmdTimeout |-> 0,
     connRetries |-> 0, tc |-> 0, conn |-> 0]

\* the addresses and durations the caller uses
CfgAddresses == {<<>>, <<"h", ":", "1">>, <<"h">>}
CfgDurations == {2}

InitCfg ==
    /\ client = NoClient
    /\ mu = 0
    /\ net = NoNet
    /\ pipe = NewPipeline
    /\ pc = [p \in {1} |-> "new"]
    /\ loc = [p \in {1} |-> Fresh("none", 0)]
    /\ probe = NoProbe

\* c, err := NewClient(address); without a Client the caller has nothing to
\* call
Construct(p, address) ==
    /\ pc[p] = "new"
    /\ LET out == NewClientAt(address) IN
       /\ client' = IF out.c = <<>> THEN client ELSE out.c[1]
       /\ loc' = [loc EXCEPT ![p] = [Fresh("NewClient", 0) EXCEPT !.err = out.err,
                                                                !.out = "returned"]]
       /\ Goto(p, IF out.c = <<>> THEN "noclient" ELSE "done")
    /\ UNCHANGED <<mu, net, pipe, probe>>

StepCfg(p) ==
    \/ \E a \in CfgAddresses : Construct(p, a)
    \/ \E t \in CfgDurations : SetConnTimeout(p, t)
    \/ \E t \in CfgDurations : SetCmdTimeout(p, t)
    \/ \E n \in -1..MaxRetries : SetConnRetries(p, n)
    \/ \E t \in CfgDurations : SetConnSleep(p, t)
    \/ CallInfo(p)
    \/ Lock(p)
    \/ CheckConn(p)
    \/ DialAttempt(p, DialOutcomes)
    \/ DialExhausted(p)
    \/ DialFail(p)
    \/ DialInstall(p)
    \/ Unlock(p)
    \/ BasicCmdStart(p)
    \/ BasicStartRequest(p)
    \/ BasicWrite(p)
    \/ BasicStartResponse(p)
    \/ BasicRead(p, {LineHelp})
    \/ BasicRead2(p, {LineBlank})
    \/ InfoResult(p)

NextCfg == StepCfg(1)

SpecCfg == InitCfg /\ [][NextCfg]_vars

-----------------------------------------------------------------------------
(* One caller that scans directories.  The daemon is reachable or refuses  *)
(* the connection, and answers every line read with a clean result.        *)

InitDir == InitClient({1}) /\ probe = NoProbe

StepDir(p) ==
    \/ \E d \in Dirs : CallScanDir(p, d)
    \/ \E d \in Dirs : CallScanDirStream(p, d)
    \/ FileArgs(p)
    \/ Lock(p)
    \/ CheckConn(p)
    \/ DialAttempt(p, {"ok", "refused"})
    \/ DialFail(p)
    \/ DialInstall(p)
    \/ Unlock(p)
    \/ FileNext(p)
    \/ FileStartRequest(p)
    \/ FsQueue(p)
    \/ FsItem(p)
    \/ FsScan(p)
    \/ FsOne(p)
    \/ SsQueue(p)
    \/ ScOpen(p, FileOutcomes)
    \/ ScLine(p)
    \/ ScCopy(p)
    \/ ScFlush(p)
    \/ SsScan(p)
    \/ FileFlush(p)
    \/ StartResponse(p)
    \/ ReadResponse(p, {LineClean})

NextDir == StepDir(1)

SpecDir == InitDir /\ [][NextDir]_vars

-----------------------------------------------------------------------------
(* Properties.                                                             *)

Callers == DOMAIN pc

FileOps == {"ScanFile", "ScanFiles", "ScanStream"}
ScanOps == FileOps \cup {"ScanReader"}

\* bit b (a power of two) is set in code
HasBit(code, b) == (code \div b) % 2 = 1

HasInfectedBit(code) == HasBit(code, 1) \/ HasBit(code, 2) \/ HasBit(code, 128)

HasSoftBit(code) ==
    \/ HasBit(code, 4) \/ HasBit(code, 8) \/ HasBit(code, 16)
    \/ HasBit(code, 32) \/ HasBit(code, 64) \/ HasBit(code, 128)

\* a read that gave a line from which a Response is parsed
WellFormed(e) == e.k = "line" /\ ParseLine(e.b).kind = "resp"

\* the Responses parsed from the lines among the reads, in the order received
RECURSIVE ParsedOf(_)
ParsedOf(rl) ==
    IF Len(rl) = 0 THEN <<>>
    ELSE IF WellFormed(rl[1]) THEN <<ParseLine(rl[1].b).rs>> \o ParsedOf(Tail(rl))
    ELSE ParsedOf(Tail(rl))

\* the Responses a returned slice points to
RECURSIVE Responses(_)
Responses(r) ==
    IF Len(r) = 0 THEN <<>>
    ELSE IF r[1] = NilPtr THEN Responses(Tail(r))
    ELSE <<r[1][1]>> \o Responses(Tail(r))

\* a scan call has returned to its caller
ScanDone(p) == pc[p] = "done" /\ loc[p].op \in ScanOps /\ loc[p].out = "returned"

\* C1: every Response the parser produces has Infected set if and only if
\* its StatusCode has bit 1, 2 or 128 set.
C1_InfectedIffBits ==
    probe.out.kind = "resp" =>
        (probe.out.rs.Infected <=> HasInfectedBit(probe.out.rs.StatusCode))

\* C1 witness: status code 1|64 was parsed and gave Infected = true
C1_Witness ==
    /\ probe.out.kind = "resp"
    /\ probe.out.rs.StatusCode = 65
    /\ probe.out.rs.Infected

\* C2: when the n reads of a scan of n items all gave well-formed lines, the
\* call returns exactly n entries and the i-th is the Response parsed from
\* the i-th line.
C2_OneEntryPerLine ==
    \A p \in Callers :
        (/\ ScanDone(p)
         /\ Len(loc[p].rlog) = loc[p].n
         /\ \A i \in 1..Len(loc[p].rlog) : WellFormed(loc[p].rlog[i]))
        => /\ Len(loc[p].r) = loc[p].n
           /\ \A i \in 1..loc[p].n : loc[p].r[i] = Ptr(ParseLine(loc[p].rlog[i].b).rs)

\* C2 witness: a scan of two items answered by two different well-formed lines
C2_Witness ==
    \E p \in Callers :
        /\ ScanDone(p)
        /\ loc[p].n = 2
        /\ Len(loc[p].rlog) = 2
        /\ WellFormed(loc[p].rlog[1]) /\ WellFormed(loc[p].rlog[2])
        /\ loc[p].rlog[1].b # loc[p].rlog[2].b
        /\ Len(loc[p].r) = 2

\* C3: a scan call of n items that returns a nil error returns n parsed
\* entries.
C3_AllOrError ==
    \A p \in Callers :
        (ScanDone(p) /\ loc[p].err = Nil) => Len(Responses(loc[p].r)) = loc[p].n

\* C4: a scan call that read a line not matching the grammar returns the
\* malformed-response error and none of the Responses parsed before it.
C4_MalformedIsFatal ==
    \A p \in Callers :
        (/\ ScanDone(p)
         /\ \E i \in 1..Len(loc[p].rlog) :
                loc[p].rlog[i].k = "line" /\ ParseLine(loc[p].rlog[i].b).kind = "nomatch")
        => /\ loc[p].err = Err("malformed")
           /\ Responses(loc[p].r) = <<>>

\* every read of the call gave a well-formed line or the end of the stream
AllParse(rl) == \A i \in 1..Len(rl) : WellFormed(rl[i]) \/ rl[i].k = "EOF"

\* the first index of rs whose status code has a soft-error bit
FirstSoft(rs) == Min({i \in 1..Len(rs) : HasSoftBit(rs[i].StatusCode)})

\* C5: when every line read by a scan call parses, the call returns every
\* parsed Response in order, its error is non-nil exactly when some Response
\* has a soft-error bit, and the error is built from the first such Response.
C5_FirstSoftError ==
    \A p \in Callers :
        (ScanDone(p) /\ Len(loc[p].rlog) > 0 /\ AllParse(loc[p].rlog))
        => LET rs == ParsedOf(loc[p].rlog)
               soft == \E i \in 1..Len(rs) : HasSoftBit(rs[i].StatusCode)
           IN /\ Responses(loc[p].r) = rs
              /\ (loc[p].err # Nil) <=> soft
              /\ soft => loc[p].err = SoftErr(rs[FirstSoft(rs)].Status)

\* C5 witness: two soft-error Responses with different statuses, the error
\* built from the first
C5_Witness ==
    \E p \in Callers :
        /\ ScanDone(p)
        /\ Len(loc[p].rlog) = 2
        /\ AllParse(loc[p].rlog)
        /\ LET rs == ParsedOf(loc[p].rlog) IN
            /\ Len(rs) = 2
            /\ HasSoftBit(rs[1].StatusCode) /\ HasSoftBit(rs[2].StatusCode)
            /\ rs[1].Status # rs[2].Status
            /\ loc[p].err = SoftErr(rs[1].Status)

\* the positions of the dial attempts in a record of dial
Attempts(dl) == {i \in 1..Len(dl) : dl[i].e = "dial"}

\* between two consecutive attempts there is exactly one sleep, of connSleep
SleepsBetween(dl, sleep) ==
    \A i \in Attempts(dl) :
        (\E j \in Attempts(dl) : j > i)
        => /\ dl[i + 1].e = "sleep"
           /\ dl[i + 1].t = sleep
           /\ i + 2 \in Attempts(dl)

\* C6: when dial returns after attempts that all timed out, it made exactly
\* 1 + connRetries attempts with one sleep of connSleep between consecutive
\* attempts and returns an error and no connection; when an attempt
\* succeeds, fewer than 1 + connRetries timeouts came before it, it is the
\* last thing dial did, and dial returns the connection and a nil error.
C6_DialRetries ==
    \A p \in Callers :
        pc[p] = "dialret" =>
            LET dl == loc[p].dlog
                att == Attempts(dl)
            IN /\ SleepsBetween(dl, client.connSleep)
               /\ (\A i \in att : dl[i].o = "timeout")
                   => /\ Cardinality(att) = 1 + client.connRetries
                      /\ loc[p].derr = "timeout"
                      /\ loc[p].conn = 0
               /\ \A i \in att : dl[i].o = "ok"
                   => /\ i = Len(dl)
                      /\ Cardinality({j \in att : j < i}) < 1 + client.connRetries
                      /\ \A j \in att : j < i => dl[j].o = "timeout"
                      /\ loc[p].derr = "nil"
                      /\ loc[p].conn # 0

\* C6 witness: with connRetries = 1, dial has returned after two timeouts
C6_Witness ==
    \E p \in Callers :
        /\ pc[p] = "dialret"
        /\ client.connRetries = 1
        /\ Cardinality(Attempts(loc[p].dlog)) = 2
        /\ \A i \in Attempts(loc[p].dlog) : loc[p].dlog[i].o = "timeout"
        /\ loc[p].derr = "timeout"

\* C7: a dial attempt that fails with an error that is not a timeout is the
\* last thing dial does (no attempt and no sleep follows it), and the
\* operation returns that error to its caller.
C7_OtherErrorEndsDial ==
    \A p \in Callers :
        /\ pc[p] = "dialret"
            => \A i \in Attempts(loc[p].dlog) :
                   loc[p].dlog[i].o = "refused" => i = Len(loc[p].dlog)
        /\ (pc[p] = "done" /\ loc[p].dialled /\ loc[p].derr = "refused")
            => loc[p].out = "returned" /\ loc[p].err = Err("refused")

\* C7 witness: with connRetries = 1, the first attempt of an operation's dial
\* was refused and the operation is over
C7_Witness ==
    \E p \in Callers :
        /\ pc[p] = "done"
        /\ client.connRetries = 1
        /\ loc[p].dialled
        /\ loc[p].derr = "refused"

\* a path list holds no non-empty path
NoNonEmptyPath(ps) == \A i \in 1..Len(ps) : ps[i] = ""

\* C8: the argument check of ScanFile, ScanFiles and ScanStream rejects the
\* call exactly when the list holds no non-empty path; a rejected call
\* returns the invalid-argument error and leaves the Client, the connection,
\* the pipeline and the lock as they were.
C8_RejectIffNoPath ==
    [][\A p \in Callers :
        (pc[p] = "f_args" /\ pc'[p] # "f_args")
        => /\ loc'[p].rejected <=> NoNonEmptyPath(loc[p].p)
           /\ loc'[p].rejected
               => /\ pc'[p] = "done"
                  /\ loc'[p].err = Err("nopath")
                  /\ ~loc'[p].dialled
                  /\ loc'[p].wire = <<>> /\ loc'[p].rlog = <<>>
                  /\ UNCHANGED <<client, net, pipe, mu>>]_vars

\* C8 witness: a call with no path at all was rejected
C8_Witness ==
    \E p \in Callers :
        /\ pc[p] = "done"
        /\ loc[p].op \in FileOps
        /\ loc[p].rejected
        /\ loc[p].p = <<>>

\* caller p runs an operation that has passed the test of c.tc
PastCheck(p) ==
    /\ loc[p].op \in ScanOps \cup {"Info", "Close"}
    /\ pc[p] \notin {"idle", "f_args", "lock", "check"}
    /\ ~loc[p].rejected

\* C9 as stated: every operation that is over dialled if and only if no dial
\* on the Client had succeeded when it began.
C9_DialsIffNoneSucceeded ==
    \A p \in Callers :
        (pc[p] = "done" /\ loc[p].op \in ScanOps \cup {"Info", "Close"})
        => (loc[p].dialled <=> loc[p].socks = 0)

\* C9 amended: an operation that is not rejected by its argument check dials
\* if and only if no dial on the Client had succeeded when it began; after a
\* failed dial the Client holds no connection; once a dial has succeeded the
\* Client keeps that connection; at most one socket is ever created.
C9_DialOnce ==
    /\ \A p \in Callers :
        /\ PastCheck(p) => (loc[p].dialled <=> loc[p].socks = 0)
        /\ (pc[p] = "done" /\ loc[p].dialled /\ loc[p].derr # "nil")
            => client.tc = 0 /\ client.conn = 0 /\ net.nsock = 0
        /\ (PastCheck(p) /\ loc[p].socks > 0) => client.tc = 1 /\ client.conn = 1
    /\ net.nsock <= 1

\* C9 witness: an operation that began on a connection already closed by
\* Close is over and did not dial
C9_Witness ==
    \E p \in Callers :
        /\ pc[p] = "done"
        /\ loc[p].op \in ScanOps \cup {"Info"}
        /\ loc[p].socks = 1
        /\ ~loc[p].dialled
        /\ net.state = "closed"
        /\ net.nsock = 1

\* caller p is between c.m.Lock() and c.m.Unlock()
InCheckAndDial(p) == pc[p] \in {"check", "dial", "dialret", "unlock"}

\* caller p runs an operation that has come out of the connection step with
\* a connection
Connected(p) ==
    /\ PastCheck(p)
    /\ pc[p] \notin {"dial", "dialret", "unlock"}
    /\ ~(loc[p].dialled /\ loc[p].derr # "nil")

\* C10: with callers running concurrently, at most one of them is in the
\* check-and-dial step and it holds the lock; at most one socket is ever
\* created; every caller that comes out of the step with a connection uses
\* the one installed handle, and a caller that did not dial itself found it
\* installed.
C10_OneDial ==
    /\ \A p \in Callers, q \in Callers :
        (InCheckAndDial(p) /\ InCheckAndDial(q)) => p = q
    /\ \A p \in Callers : InCheckAndDial(p) => mu = p
    /\ net.nsock <= 1
    /\ \A p \in Callers : Connected(p) => client.tc = 1 /\ client.conn = 1 /\ net.nsock = 1

\* C10 witness: both callers began with no connection; one dialled, the
\* other did not, and both are past the step on the one socket
C10_Witness ==
    \E p \in Callers, q \in Callers :
        /\ p # q
        /\ Connected(p) /\ Connected(q)
        /\ loc[p].socks = 0 /\ loc[q].socks = 0
        /\ loc[p].dialled /\ ~loc[q].dialled
        /\ net.nsock = 1

\* the command lines among the writes of a request: format, command, path
RECURSIVE LinesOf(_)
LinesOf(w) ==
    IF Len(w) = 0 THEN <<>>
    ELSE IF w[1].k = "line" /\ w[1].ok
         THEN <<[fmt |-> w[1].fmt, cmd |-> w[1].cmd, arg |-> w[1].arg]>> \o LinesOf(Tail(w))
         ELSE LinesOf(Tail(w))

\* the item line of a file scan and of a stream scan
ItemLine(op, path) ==
    IF op = "ScanStream"
    THEN [fmt |-> "%s %s SIZE %d", cmd |-> "SCAN STREAM", arg |-> path]
    ELSE [fmt |-> "%s %s", cmd |-> "SCAN FILE", arg |-> path]

\* the lines the protocol asks for: one item line, or QUEUE, the item lines
\* in submission order, and SCAN
ExpectedLines(op, ps) ==
    IF Len(ps) = 1 THEN <<ItemLine(op, ps[1])>>
    ELSE <<[fmt |-> "%s", cmd |-> "QUEUE", arg |-> ""]>>
            \o [i \in 1..Len(ps) |-> ItemLine(op, ps[i])]
            \o <<[fmt |-> "%s", cmd |-> "SCAN", arg |-> ""]>>

\* C11: when the request of ScanFile, ScanFiles or ScanStream has been
\* written without an error, its command lines are one item line for one
\* item and QUEUE, the N item lines in submission order and SCAN for N > 1
\* items, every write succeeded, and the call then expects N response
\* lines: it reads while it has read fewer than N and never reads more.
C11_WireSequence ==
    \A p \in Callers :
        /\ (pc[p] = "f_sresp" /\ loc[p].op \in FileOps)
            => /\ LinesOf(loc[p].wire) = ExpectedLines(loc[p].op, loc[p].p)
               /\ \A i \in 1..Len(loc[p].wire) : loc[p].wire[i].ok
               /\ loc[p].n = Len(loc[p].p)
        /\ (pc[p] \in {"pr_read", "done"} /\ loc[p].op \in FileOps)
            => Len(loc[p].rlog) <= loc[p].n
        /\ (pc[p] = "pr_read" /\ loc[p].op \in FileOps)
            => Len(loc[p].rlog) < loc[p].n

\* C11 witness: the request of a scan of two different paths has been written
C11_Witness ==
    \E p \in Callers :
        /\ pc[p] = "f_sresp"
        /\ loc[p].op = "ScanFiles"
        /\ Len(loc[p].p) = 2
        /\ loc[p].p[1] # loc[p].p[2]
        /\ Len(LinesOf(loc[p].wire)) = 4

\* a written line that declares a content length
DeclaresSize(w) == w.k = "line" /\ w.ok /\ w.fmt \in {"%s %s SIZE %d", "%s stream SIZE %d"}

\* C12: the payload written after a line with a SIZE token has as many
\* bytes as the token declares.
C12_SizeIsPayload ==
    \A p \in Callers :
        \A i \in 1..(Len(loc[p].wire) - 1) :
            (/\ DeclaresSize(loc[p].wire[i])
             /\ loc[p].wire[i + 1].k = "data"
             /\ loc[p].wire[i + 1].ok)
            => loc[p].wire[i + 1].size = loc[p].wire[i].size

\* C12 witness: ScanReader has uploaded an open file that had been read in
\* part before the call
C12_Witness ==
    \E p \in Callers :
        /\ pc[p] = "r_flush"
        /\ loc[p].in.kind = "File"
        /\ loc[p].in.len < loc[p].in.size
        /\ Len(loc[p].wire) = 2
        /\ loc[p].wire[2].k = "data" /\ loc[p].wire[2].ok

\* C13: with one caller at a time, whenever no handler is between its
\* connection step and its return (the caller is idle, its operation is
\* over, or basicCmd has returned to Info or Close), the connection has no
\* deadline.
C13_DeadlineReset ==
    (\A p \in Callers : pc[p] \in {"idle", "done", "info", "close"})
        => net.deadline = ZeroTime

\* C13 witness: a scan call whose read ran under a deadline and timed out
\* is over, on a connection that is still open
C13_Witness ==
    \E p \in Callers :
        /\ pc[p] = "done"
        /\ loc[p].op \in ScanOps
        /\ loc[p].err = Err("timeout")
        /\ Len(loc[p].rlog) > 0
        /\ loc[p].rlog[Len(loc[p].rlog)].dl = client.cmdTimeout
        /\ net.state = "open"
        /\ net.deadline = ZeroTime

\* C14: every operation the caller has started eventually returns.
C14_EveryOperationReturns == (pc[1] \notin {"idle", "done"}) ~> (pc[1] = "done")

\* C14 witness: a handler waits in StartResponse(id) for a response
\* sequencer that an earlier, failed operation left behind its id
C14_Witness ==
    \E p \in Callers :
        /\ pc[p] \in {"b_sresp", "f_sresp"}
        /\ pipe.response < loc[p].id
        /\ \A q \in Callers : q # p => pc[q] \in {"idle", "done"}

\* a ScanReader call on a reader of a kind the type switch does not know
\* is over
UnknownReaderDone(p) ==
    /\ pc[p] = "done"
    /\ loc[p].op = "ScanReader"
    /\ loc[p].in.kind = "Other"

\* C15 as stated: ScanReader on a reader whose length cannot be determined
\* returns the content-length error, having written no line and no payload
\* and read no response.
C15_UnknownLengthRefused ==
    \A p \in Callers :
        UnknownReaderDone(p)
        => /\ loc[p].out = "returned"
           /\ loc[p].err = Err("length")
           /\ loc[p].wire = <<>>
           /\ loc[p].rlog = <<>>

\* C15 amended: such a call writes no line and no payload and reads no
\* response; it returns the content-length error unless its connection step
\* had to dial and the dial failed, and then it returns the dial error.
C15_UnknownLengthAfterConnect ==
    \A p \in Callers :
        /\ (loc[p].op = "ScanReader" /\ loc[p].in.kind = "Other")
              => (loc[p].wire = <<>> /\ loc[p].rlog = <<>>)
        /\ UnknownReaderDone(p)
              => (/\ loc[p].out = "returned"
                  /\ loc[p].err = IF loc[p].dialled /\ loc[p].derr # "nil"
                                  THEN Err(loc[p].derr)
                                  ELSE Err("length")
                  /\ loc[p].err # Nil)

\* C15 witness: the call was refused on a connection that is open
C15_Witness ==
    \E p \in Callers :
        /\ UnknownReaderDone(p)
        /\ loc[p].err = Err("length")
        /\ net.state = "open"

\* the handshake grammar, read off the line as text: five fields parted by
\* single spaces, the k-th being the k-th keyword followed by a non-empty
\* value without white space
SpacesOf(s) == {i \in 1..Len(s) : s[i] = " "}
NthSpace(s, k) == CHOOSE i \in SpacesOf(s) : Cardinality({j \in SpacesOf(s) : j <= i}) = k
HandshakeField(s, k) ==
    Sub(s, IF k = 1 THEN 1 ELSE NthSpace(s, k - 1) + 1,
           IF k = Cardinality(SpacesOf(s)) + 1 THEN Len(s) ELSE NthSpace(s, k) - 1)
HandshakeValue(s, k) == Sub(HandshakeField(s, k), Len(HelpKeys[k]) + 1, Len(HandshakeField(s, k)))
IsHandshake(s) ==
    /\ Cardinality(SpacesOf(s)) = Len(HelpKeys) - 1
    /\ \A k \in 1..Len(HelpKeys) :
        LET f == HandshakeField(s, k) IN
        /\ Len(f) > Len(HelpKeys[k])
        /\ Sub(f, 1, Len(HelpKeys[k])) = HelpKeys[k]
        /\ \A i \in 1..Len(f) : ~IsSpace(f[i])

\* an Info call is over whose HELP line was written and whose two reads each
\* gave a line
InfoExchanged(p) ==
    /\ pc[p] = "done"
    /\ loc[p].op = "Info"
    /\ Len(loc[p].wire) = 1 /\ loc[p].wire[1].ok
    /\ Len(loc[p].rlog) = 2
    /\ \A i \in 1..2 : loc[p].rlog[i].k = "line"

\* C16: Info writes one HELP line and nothing else, and reads at most the
\* response line and the terminator line; when both were read, a response line
\* of the handshake grammar gives Info{v, e, p, s, u} with a nil error and any
\* other line of the catalogue gives the invalid-response error; the
\* terminator has then been read by Info, so the next read on the connection
\* belongs to the next operation.
C16_InfoHandshake ==
    \A p \in Callers :
        (loc[p].op = "Info")
        => (/\ Len(loc[p].wire) <= 1
            /\ \A i \in 1..Len(loc[p].wire) :
                /\ loc[p].wire[i].k = "line"
                /\ loc[p].wire[i].fmt = "%s"
                /\ loc[p].wire[i].cmd = "HELP"
            /\ Len(loc[p].rlog) <= 2
            /\ Len(loc[p].rlog) > 0 => (Len(loc[p].wire) = 1 /\ loc[p].wire[1].ok)
            /\ (pc[p] = "done" /\ loc[p].err # Nil) => loc[p].info = <<>>
            /\ InfoExchanged(p)
                 => LET s == StripEOL(loc[p].rlog[1].b) IN
                    IF IsHandshake(s)
                    THEN /\ loc[p].err = Nil
                         /\ loc[p].info = [k \in 1..Len(HelpKeys) |-> HandshakeValue(s, k)]
                    ELSE loc[p].err = Err("invalid"))

\* C16 witness: an Info call returned the five fields of the handshake line
C16_Witness ==
    \E p \in Callers :
        /\ InfoExchanged(p)
        /\ loc[p].err = Nil
        /\ loc[p].info = <<<<"1">>, <<"2">>, <<"3">>, <<"4">>, <<"5">>>>

\* an Info call returned the invalid-response error for a line that was read
C16_WitnessInvalid ==
    \E p \in Callers :
        /\ InfoExchanged(p)
        /\ loc[p].err = Err("invalid")

\* the address holds exactly one colon
OneColon(a) == \E i \in 1..Len(a) : a[i] = ":" /\ \A j \in 1..Len(a) : a[j] = ":" => j = i

\* NewClient has returned
Constructed == probe.fn = "NewClient" /\ probe.out.kind = "result"

\* C17: NewClient returns a Client if and only if the address is empty or
\* holds exactly one colon: the Client's address is then the default
\* 127.0.0.1:10200 for the empty address and the address given otherwise;
\* any other address gives the error "The supplied address is invalid" and a
\* nil Client; in both cases no socket has been created.
C17_AddressAccepted ==
    Constructed
    => LET a == probe.in
           out == probe.out
       IN /\ (out.c # <<>>) <=> (a = <<>> \/ OneColon(a))
          /\ (out.c # <<>>) <=> (out.err = Nil)
          /\ out.c # <<>> => out.c[1].address = (IF a = <<>> THEN DefaultAddress ELSE a)
          /\ out.c = <<>> => out.err = Err("address")
          /\ net = NoNet

\* C17 witness: an address of two colons was refused
C17_Witness ==
    /\ Constructed
    /\ Cardinality({i \in 1..Len(probe.in) : probe.in[i] = ":"}) = 2
    /\ probe.out.c = <<>>
    /\ probe.out.err = Err("address")

\* an address of one colon was accepted
C17_WitnessAccepted ==
    /\ Constructed
    /\ probe.in = <<"h", ":", "1">>
    /\ probe.out.c # <<>>

\* C18: connRetries is never negative: when SetConnRetries(s) has returned
\* the field holds s for s >= 0 and 0 for s < 0, the other setters and the
\* operations leave it as it is, and a dial loop that has ended has made at
\* least one attempt.
C18_RetriesNeverNegative ==
    \A p \in Callers :
        /\ client.connRetries >= 0
        /\ (pc[p] = "done" /\ loc[p].op = "SetConnRetries")
              => client.connRetries = (IF loc[p].arg >= 0 THEN loc[p].arg ELSE 0)
        /\ (pc[p] = "dialret")
              => (Attempts(loc[p].dlog) # {} /\ loc[p].dlog[1].e = "dial")

\* C18 witness: SetConnRetries(-1) has returned and the field holds 0
C18_Witness ==
    \E p \in Callers :
        /\ pc[p] = "done"
        /\ loc[p].op = "SetConnRetries"
        /\ loc[p].arg = -1
        /\ client.connRetries = 0

\* a dial loop has ended after one attempt with connRetries 0
C18_WitnessDial ==
    \E p \in Callers :
        /\ pc[p] = "dialret"
        /\ client.connRetries = 0
        /\ Cardinality(Attempts(loc[p].dlog)) = 1

\* the setters, the field each one writes, and the value it stores
SetterOps == {"SetConnTimeout", "SetCmdTimeout", "SetConnRetries", "SetConnSleep"}
ClientFields == {"address", "connTimeout", "connSleep", "cmdTimeout", "connRetries", "tc", "conn"}
OwnField(op) ==
    CASE op = "SetConnTimeout" -> "connTimeout"
      [] op = "SetCmdTimeout" -> "cmdTimeout"
      [] op = "SetConnRetries" -> "connRetries"
      [] op = "SetConnSleep" -> "connSleep"
Stored(op, v) == IF op = "SetConnRetries" /\ v < 0 THEN 0 ELSE v

\* a step in which caller p runs a setter
SetterStep(p) ==
    /\ pc[p] \in {"idle", "done"}
    /\ pc'[p] = "done"
    /\ loc'[p].op \in SetterOps

\* every write and read of the operation in hand was made under the deadline
\* now + cmdTimeout of the Client as it is configured
DeadlinesFromConfig ==
    \A p \in Callers :
        /\ \A i \in 1..Len(loc[p].wire) : loc[p].wire[i].dl = client.cmdTimeout
        /\ \A i \in 1..Len(loc[p].rlog) : loc[p].rlog[i].dl = client.cmdTimeout

\* C19: a setter writes its own field and nothing else: the other fields of
\* the Client, its address, its textproto connection and its socket, the
\* network, the pipeline and the lock are as before, so no setter dials,
\* closes or replaces a connection; and every write and read of an operation
\* is made under the cmdTimeout the Client holds at that time, whether it was
\* set before or after the connection was made.
C19_SettersFrame ==
    /\ [][\A p \in Callers :
            SetterStep(p)
            => (/\ \A f \in ClientFields \ {OwnField(loc'[p].op)} : client'[f] = client[f]
                /\ client'[OwnField(loc'[p].op)] = Stored(loc'[p].op, loc'[p].arg)
                /\ net' = net
                /\ pipe' = pipe
                /\ mu' = mu)]_vars
    /\ []DeadlinesFromConfig

\* C19 witness: SetCmdTimeout(2) has returned on a Client whose connection is
\* open
C19_Witness ==
    \E p \in Callers :
        /\ pc[p] = "done"
        /\ loc[p].op = "SetCmdTimeout"
        /\ loc[p].arg = 2
        /\ client.cmdTimeout = 2
        /\ client.tc # 0
        /\ net.state = "open"

\* an Info call on a connection made by an earlier call wrote its line and
\* read its two lines under the deadline of the cmdTimeout set since
C19_WitnessUsed ==
    \E p \in Callers :
        /\ InfoExchanged(p)
        /\ loc[p].socks > 0
        /\ ~loc[p].dialled
        /\ client.cmdTimeout = 2
        /\ loc[p].wire[1].dl = 2
        /\ \A i \in 1..2 : loc[p].rlog[i].dl = 2

\* NewClient has returned a Client to caller p
ClientReturned(p) == pc[p] = "done" /\ loc[p].op = "NewClient"

\* C20: the Client NewClient returns has connTimeout 15 s, connSleep 1 s,
\* connRetries 0, cmdTimeout 60 s and no connection, and nothing has touched
\* the network; a socket is created only in the dial step of an operation,
\* and an operation that starts on a Client without a socket dials.
C20_LazyDefaults ==
    /\ [](\A p \in Callers :
            /\ ClientReturned(p)
                 => (/\ client.connTimeout = 15
                     /\ client.connSleep = 1
                     /\ client.connRetries = 0
                     /\ client.cmdTimeout = 60
                     /\ client.tc = 0
                     /\ client.conn = 0
                     /\ net = NoNet
                     /\ pipe = NewPipeline)
            /\ (PastCheck(p) /\ loc[p].socks = 0) => loc[p].dialled)
    /\ [][\A p \in Callers :
            (net'.nsock # net.nsock \/ client'.tc # client.tc)
            => (pc[p] \in {"dial", "dialret"} /\ loc[p].op = "Info")]_vars

\* C20 witness: NewClient("") has returned its Client
C20_Witness ==
    \E p \in Callers :
        /\ ClientReturned(p)
        /\ client.address = DefaultAddress
        /\ net.nsock = 0

\* the first operation on the Client has dialled and installed a connection
C20_WitnessLazy ==
    \E p \in Callers :
        /\ pc[p] = "done"
        /\ loc[p].op = "Info"
        /\ loc[p].socks = 0
        /\ loc[p].dialled
        /\ client.tc # 0

\* a String method has returned for the value probe.in
StringDone(fn) == probe.fn = fn /\ probe.out.kind = "string"

\* C21: Command.String gives HELP, SCAN FILE, SCAN STREAM, QUEUE, SCAN and
\* QUIT for the commands 1..6 in that order and the empty string for every
\* other value, 0, 100 and the negative ones included.
C21_CommandText ==
    StringDone("Command.String")
    => LET c == probe.in
           t == probe.out.s
       IN /\ c = 1 => t = "HELP"
          /\ c = 2 => t = "SCAN FILE"
          /\ c = 3 => t = "SCAN STREAM"
          /\ c = 4 => t = "QUEUE"
          /\ c = 5 => t = "SCAN"
          /\ c = 6 => t = "QUIT"
          /\ c \notin 1..6 => t = ""

\* C21 witness: Command(100).String() has returned the empty string
C21_Witness ==
    /\ StringDone("Command.String")
    /\ probe.in = 100
    /\ probe.out.s = ""

\* Command(5).String() has returned SCAN
C21_WitnessScan ==
    /\ StringDone("Command.String")
    /\ probe.in = 5
    /\ probe.out.s = "SCAN"

\* the descriptions the package's tests expect for the nine status codes
StatusDescriptions ==
    {<<0, "No signature was matched">>,
     <<1, "Atleast one virus-infected object was found">>,
     <<2, "Atleast one suspicious (heuristic match) object was found">>,
     <<4, "Scanning interrupted by user">>,
     <<8, "Scan restriction caused scan to skip files">>,
     <<16, "Platform error">>,
     <<32, "Internal Engine error">>,
     <<64, "Atleast one object was not scanned">>,
     <<128, "Atleast one object was disinfected">>}

\* C22: StatusCode.String gives the fixed description for 0, 1, 2, 4, 8, 16,
\* 32, 64 and 128 and the empty string for every other value, a value with
\* more than one bit set and 100 included.
C22_StatusText ==
    StringDone("StatusCode.String")
    => LET c == probe.in
           t == probe.out.s
       IN /\ \A d \in StatusDescriptions : c = d[1] => t = d[2]
          /\ (\A d \in StatusDescriptions : c # d[1]) => t = ""

\* C22 witness: StatusCode(3).String(), a value of two bits, has returned the
\* empty string
C22_Witness ==
    /\ StringDone("StatusCode.String")
    /\ probe.in = 3
    /\ probe.out.s = ""

\* StatusCode(64).String() has returned its description
C22_WitnessSkip ==
    /\ StringDone("StatusCode.String")
    /\ probe.in = 64
    /\ probe.out.s = "Atleast one object was not scanned"

\* caller p is in a Close call on a connection that is open
ClosingLive(p) ==
    /\ loc[p].op = "Close"
    /\ pc[p] \notin {"idle", "done"}
    /\ client.tc # 0
    /\ net.state = "open"

\* when Close on an open connection gets to c.tc.Close(), it has written
\* one QUIT line and read nothing, the socket is closed in that step, and the
\* error it returns is that of the write
CloseReturnsWriteError ==
    [][\A p \in Callers :
        (ClosingLive(p) /\ pc[p] = "close" /\ pc'[p] = "done")
        => (/\ Len(loc[p].wire) = 1
            /\ loc[p].wire[1].k = "line"
            /\ loc[p].wire[1].cmd = "QUIT"
            /\ loc[p].rlog = <<>>
            /\ loc'[p].rlog = <<>>
            /\ net'.state = "closed"
            /\ loc'[p].out = "returned"
            /\ loc'[p].err = loc[p].err
            /\ (loc[p].err = Nil) <=> loc[p].wire[1].ok)]_vars

\* C23 as stated: Close on a Client with a live connection writes exactly one
\* QUIT line, reads no response line and then closes the socket, whether or
\* not the write succeeded, and returns the error of the write: every such
\* call comes to its end with the socket closed.
C23_CloseClosesSocket ==
    (ClosingLive(1) /\ pc[1] = "lock")
    ~> (/\ pc[1] = "done"
        /\ loc[1].op = "Close"
        /\ net.state = "closed"
        /\ Len(loc[1].wire) = 1
        /\ loc[1].wire[1].cmd = "QUIT"
        /\ loc[1].rlog = <<>>
        /\ (loc[1].err = Nil) <=> loc[1].wire[1].ok)

\* C23 witness: a Close call on an open connection has written its QUIT
\* line and waits in StartResponse behind a request that never had its
\* response turn
C23_Witness ==
    \E p \in Callers :
        /\ ClosingLive(p)
        /\ pc[p] = "b_sresp"
        /\ Len(loc[p].wire) = 1 /\ loc[p].wire[1].ok
        /\ pipe.response < loc[p].id

\* a Close call on an open connection has returned with the socket closed
C23_WitnessClosed ==
    \E p \in Callers :
        /\ pc[p] = "done"
        /\ loc[p].op = "Close"
        /\ loc[p].out = "returned"
        /\ loc[p].socks > 0
        /\ Len(loc[p].wire) = 1
        /\ net.state = "closed"

\* the parts of the line's text after the status code, as they stand in it
TailParts(t) ==
    CASE t = TailOK ->
            [Status |-> <<"c", "l", "e", "a", "n">>, Signature |-> <<>>,
             Filename |-> <<"a">>, ArchiveItem |-> <<>>]
      [] t = TailEicar ->
            [Status |-> <<"i", "n", "f", "e", "c", "t", "e", "d">>,
             Signature |-> <<"E", "I", "C", "A", "R">>,
             Filename |-> <<"a">>, ArchiveItem |-> <<>>]
      [] t = TailArchive ->
            [Status |-> <<"i", "n", "f", "e", "c", "t", "e", "d">>,
             Signature |-> <<"E", "I", "C", "A", "R">>,
             Filename |-> <<"a">>, ArchiveItem |-> <<"b">>]
      [] t = TailNoFile ->
            [Status |-> <<"c", "l", "e", "a", "n">>, Signature |-> <<>>,
             Filename |-> <<>>, ArchiveItem |-> <<>>]

\* the line a Response stands for, written out from its fields
LineOf(rs, digits, blank) ==
    digits \o <<" ", "<">> \o rs.Status
    \o (IF rs.Signature = <<>> THEN <<>> ELSE <<":", " ">> \o rs.Signature)
    \o <<">">> \o blank \o rs.Filename
    \o (IF rs.ArchiveItem = <<>> THEN <<>> ELSE <<"-", ">">> \o rs.ArchiveItem)

C24_WitnessClean ==
    /\ probe.fn = "ParseLine"
    /\ probe.out.kind = "resp"
    /\ probe.out.rs.StatusCode = 0
    /\ probe.out.rs.Signature = <<>>
    /\ probe.out.rs.Filename = <<"a">>
    /\ probe.out.rs.ArchiveItem = <<>>
    /\ ~probe.out.rs.Infected

DirOps == {"ScanDir", "ScanDirStream"}

\* the paths of the entries of one kind set, in the order of the walk
RECURSIVE PathsOfKind(_, _)
PathsOfKind(w, kinds) ==
    IF w = <<>> THEN <<>>
    ELSE (IF Head(w).kind \in kinds THEN <<Head(w).path>> ELSE <<>>)
         \o PathsOfKind(Tail(w), kinds)

\* the call of caller p has not touched the network
NoNetwork(p) ==
    /\ ~loc[p].dialled
    /\ loc[p].wire = <<>>
    /\ loc[p].rlog = <<>>
    /\ net.nsock = loc[p].socks

\* a ScanDir or ScanDirStream call: a path that is no directory ends the call
\* at once with an error and no network activity; for a directory the paths
\* of the entries of the kinds given are handed, in the order of the walk, to
\* fileCmd with the command of ScanFiles or ScanStream, and when there is
\* none the call is rejected with the no-path error and no network activity
DirCallForwards(p, kinds) ==
    LET d == loc[p].dir IN
    /\ (d.stat # "ok" \/ ~d.isdir)
         => (/\ pc[p] = "done"
             /\ loc[p].out = "returned"
             /\ loc[p].err # Nil
             /\ NoNetwork(p))
    /\ (d.stat = "ok" /\ d.isdir)
         => (/\ loc[p].out # "panic"
             /\ loc[p].cmd = (IF loc[p].op = "ScanDir" THEN ScanFile ELSE ScanStream)
             /\ (pc[p] = "f_args") => loc[p].p = PathsOfKind(d.walk, kinds)
             /\ (PathsOfKind(d.walk, kinds) = <<>>)
                  => (/\ pc[p] \in {"f_args", "done"}
                      /\ NoNetwork(p)
                      /\ (pc[p] = "done") => (loc[p].err = Err("nopath"))))

\* C25 as stated: ScanDir and ScanDirStream return an error without network
\* activity for a path that does not exist or is not a directory, and on a
\* directory hand its regular files, in enumeration order, to the batch path
\* of ScanFiles / ScanStream, a directory without a regular file giving the
\* invalid-argument error with no network activity.
C25_DirForwardsRegularFiles ==
    \A p \in Callers :
        (loc[p].op \in DirOps) => DirCallForwards(p, {"regular"})

\* C25 witness: ScanDir of a path below a regular file has ended in a panic
C25_Witness ==
    \E p \in Callers :
        /\ pc[p] = "done"
        /\ loc[p].op = "ScanDir"
        /\ loc[p].dir.stat = "ENOTDIR"
        /\ loc[p].out = "panic"

\* what the code does for the paths os.Stat can look at: everything in the
\* directory that is not itself a directory is forwarded
DirForwardsNonDirectories ==
    \A p \in Callers :
        (loc[p].op \in DirOps /\ loc[p].dir.stat # "ENOTDIR")
        => DirCallForwards(p, {"regular", "other"})

\* ScanDirStream of a directory of two regular files has returned two results
DirWitnessScanned ==
    \E p \in Callers :
        /\ pc[p] = "done"
        /\ loc[p].op = "ScanDirStream"
        /\ Len(loc[p].dir.walk) = 2
        /\ Len(loc[p].r) = 2
        /\ loc[p].err = Nil

\* the deadline d is the one SetDeadline(now + cmdTimeout) sets, and it is set
UnderCmdTimeout(d) == d = client.cmdTimeout /\ d # ZeroTime

\* the places at which a handler is about to flush the writer
FlushPcs == {"sc_flush", "r_flush", "f_flush"}

\* C26: with cmdTimeout > 0 and one caller, every write (a command line, a
\* payload copy) and every read (a response line, the line after the HELP
\* answer) an operation makes on a socket that has not been closed is made
\* with the deadline now + cmdTimeout in force, and so is every flush: none is
\* made with the deadline cleared.
C26_IOUnderDeadline ==
    /\ [][\A p \in Callers :
            (net.state # "closed" /\ client.cmdTimeout > 0)
            => (/\ (Len(loc'[p].wire) = Len(loc[p].wire) + 1)
                     => UnderCmdTimeout(loc'[p].wire[Len(loc'[p].wire)].dl)
                /\ (Len(loc'[p].rlog) = Len(loc[p].rlog) + 1)
                     => UnderCmdTimeout(loc'[p].rlog[Len(loc'[p].rlog)].dl))]_vars
    /\ [](\A p \in Callers :
            (pc[p] \in FlushPcs /\ net.state # "closed" /\ client.cmdTimeout > 0)
            => UnderCmdTimeout(net.deadline))

\* C26 witness: a batch of two streams has written QUEUE, a SCAN STREAM line
\* and a payload, each under the deadline, and is about to flush
C26_Witness ==
    \E p \in Callers :
        /\ pc[p] = "sc_flush"
        /\ net.state = "open"
        /\ Len(loc[p].wire) = 3
        /\ loc[p].wire[3].k = "data"
        /\ \A i \in 1..3 : loc[p].wire[i].dl = 60
        /\ net.deadline = 60

\* a read that gave a line matching the grammar whose status-code token
\* strconv.Atoi cannot convert
AtoiFails(e) == e.k = "line" /\ ParseLine(e.b).kind = "atoi"

\* C27: when a scan call reads a line that matches the grammar and whose
\* status-code token cannot be converted to an integer, the call returns the
\* conversion failure as its error (not nil, and not the soft-error summary
\* of the lines before it), and that line is the last one the call read.
C27_AtoiFailureReturned ==
    \A p \in Callers :
        \A i \in 1..Len(loc[p].rlog) :
            (loc[p].op \in ScanOps /\ AtoiFails(loc[p].rlog[i]))
            => /\ i = Len(loc[p].rlog)
               /\ pc[p] = "done"
               /\ loc[p].out = "returned"
               /\ loc[p].err = Err("atoi")

\* C27 witness: a scan of two items read a soft-error line and then a line
\* with a status code of twenty digits, and returned the conversion failure
C27_Witness ==
    \E p \in Callers :
        /\ ScanDone(p)
        /\ loc[p].n = 2
        /\ Len(loc[p].rlog) = 2
        /\ WellFormed(loc[p].rlog[1])
        /\ HasSoftBit(ParseLine(loc[p].rlog[1].b).rs.StatusCode)
        /\ AtoiFails(loc[p].rlog[2])
        /\ loc[p].gerr # Nil
        /\ loc[p].err = Err("atoi")

\* a read at which the response reader stops before its count is reached:
\* the end of the stream, a read error, or a line from which no Response is
\* parsed (no match of the grammar, or a status code that does not convert)
ReadError(e) == e.k \in {"io", "timeout"}
StopsReader(e) == e.k = "EOF" \/ ReadError(e) \/ (e.k = "line" /\ ~WellFormed(e))

\* C28: called for n lines, the response reader makes at most n reads, also
\* when the daemon has more to send; every read before the last gave a line
\* that parsed; a call that returned after fewer than n reads stopped at the
\* end of the stream, at a read error or at a line it could not parse; and a
\* read error is the error the call returns.
C28_AtMostNLines ==
    \A p \in Callers :
        (loc[p].op \in ScanOps) =>
            LET rl == loc[p].rlog IN
            /\ Len(rl) <= loc[p].n
            /\ \A i \in 1..(Len(rl) - 1) : WellFormed(rl[i])
            /\ (pc[p] = "pr_read") => (\A i \in 1..Len(rl) : WellFormed(rl[i]))
            /\ (ScanDone(p) /\ 0 < Len(rl) /\ Len(rl) < loc[p].n)
                  => StopsReader(rl[Len(rl)])
            /\ (ScanDone(p) /\ 0 < Len(rl) /\ ReadError(rl[Len(rl)]))
                  => loc[p].err = Err(rl[Len(rl)].k)

\* C28 witness: a scan of two items has returned after two reads that gave
\* two lines, on a connection that is still open for more
C28_Witness ==
    \E p \in Callers :
        /\ ScanDone(p)
        /\ loc[p].n = 2
        /\ Len(loc[p].rlog) = 2
        /\ WellFormed(loc[p].rlog[1]) /\ WellFormed(loc[p].rlog[2])
        /\ net.state = "open"

\* C28 witness: a scan of two items stopped at a read error after one line
\* and returned that error
C28_WitnessReadError ==
    \E p \in Callers :
        /\ ScanDone(p)
        /\ loc[p].n = 2
        /\ Len(loc[p].rlog) = 2
        /\ WellFormed(loc[p].rlog[1])
        /\ loc[p].rlog[2].k = "timeout"
        /\ loc[p].err = Err("timeout")

\* C28 witness: a scan of two items stopped at the end of the stream after
\* one read
C28_WitnessEOF ==
    \E p \in Callers :
        /\ ScanDone(p)
        /\ loc[p].n = 2
        /\ Len(loc[p].rlog) = 1
        /\ loc[p].rlog[1].k = "EOF"

\* C29: the sequence a scan call returns holds one non-nil entry for every
\* line the call parsed, in order, and nothing else: its length is the
\* number of lines parsed, and it is empty when no line was parsed.
C29_EntriesAreParsedLines ==
    \A p \in Callers :
        ScanDone(p) =>
            LET rs == ParsedOf(loc[p].rlog) IN
            /\ Len(loc[p].r) = Len(rs)
            /\ \A i \in 1..Len(loc[p].r) :
                    loc[p].r[i] # NilPtr /\ loc[p].r[i] = Ptr(rs[i])

\* C29 witness: a scan whose first read met the end of the stream returned a
\* sequence of length one holding a nil entry
C29_Witness ==
    \E p \in Callers :
        /\ ScanDone(p)
        /\ Len(loc[p].rlog) = 1
        /\ loc[p].rlog[1].k = "EOF"
        /\ ParsedOf(loc[p].rlog) = <<>>
        /\ loc[p].r = <<NilPtr>>

\* what the code does: once a line has parsed, the sequence returned is the
\* parsed lines in order, with no nil entry
EntriesAfterFirstParse ==
    \A p \in Callers :
        (ScanDone(p) /\ ParsedOf(loc[p].rlog) # <<>>)
        => /\ Len(loc[p].r) = Len(ParsedOf(loc[p].rlog))
           /\ \A i \in 1..Len(loc[p].r) : loc[p].r[i] = Ptr(ParsedOf(loc[p].rlog)[i])

\* the positions of the sleeps in a record of dial
Sleeps(dl) == {i \in 1..Len(dl) : dl[i].e = "sleep"}

\* C30: when dial returns, it has slept one time fewer than it has made
\* attempts, and the last thing it did was an attempt, not a sleep.
C30_SleepOnlyBetweenAttempts ==
    \A p \in Callers :
        pc[p] = "dialret" =>
            LET dl == loc[p].dlog IN
            /\ Cardinality(Sleeps(dl)) = Cardinality(Attempts(dl)) - 1
            /\ dl[Len(dl)].e = "dial"

\* C30 witness: dial returns the timeout error after two attempts that both
\* timed out, having slept twice, the second time after the final attempt
C30_Witness ==
    \E p \in Callers :
        /\ pc[p] = "dialret"
        /\ loc[p].derr = "timeout"
        /\ Cardinality(Attempts(loc[p].dlog)) = 2
        /\ Cardinality(Sleeps(loc[p].dlog)) = 2
        /\ loc[p].dlog[Len(loc[p].dlog)].e = "sleep"

\* what the code does: one sleep follows every attempt that timed out, the
\* last one included, and none follows any other attempt
SleepAfterEveryTimeout ==
    \A p \in Callers :
        pc[p] = "dialret" =>
            LET dl == loc[p].dlog IN
            /\ Cardinality(Sleeps(dl)) = Cardinality({i \in Attempts(dl) : dl[i].o = "timeout"})
            /\ \A i \in Attempts(dl) :
                    (dl[i].o = "timeout") <=> (i < Len(dl) /\ dl[i + 1].e = "sleep")

\* the operation of p found no connection, dialled, and the dial failed
DialFailed(p) == loc[p].dialled /\ loc[p].derr \in {"timeout", "refused"}

\* C31: a Close that finds no connection and whose dial fails returns the
\* dial error to its caller, does not crash on the absent connection handle,
\* and leaves the Client without a connection.
C31_CloseWithoutConnection ==
    \A p \in Callers :
        (pc[p] = "done" /\ loc[p].op = "Close" /\ DialFailed(p))
        => /\ loc[p].out = "returned"
           /\ loc[p].err = Err(loc[p].derr)
           /\ client.tc = 0
           /\ client.conn = 0

\* C31 witness: Close on a Client never connected, whose single dial attempt
\* timed out, has ended in a panic at c.tc.Close()
C31_Witness ==
    \E p \in Callers :
        /\ pc[p] = "done"
        /\ loc[p].op = "Close"
        /\ loc[p].socks = 0
        /\ loc[p].derr = "timeout"
        /\ client.tc = 0
        /\ loc[p].out = "panic"

\* what the code does up to the crash: basicCmd hands the dial error to Close
\* and the Client is left without a connection; Info, which makes no call on
\* tc after basicCmd, returns the dial error
DialErrorReachesClose ==
    \A p \in Callers :
        /\ (pc[p] \in {"close", "done"} /\ loc[p].op = "Close" /\ DialFailed(p))
            => (loc[p].err = Err(loc[p].derr) /\ client.tc = 0 /\ client.conn = 0)
        /\ (pc[p] = "done" /\ loc[p].op = "Info" /\ DialFailed(p))
            => (loc[p].out = "returned" /\ loc[p].err = Err(loc[p].derr))

\* no handler is running: every caller is idle or has its result
BetweenOperations == \A p \in Callers : pc[p] \in {"idle", "done"}

\* C32: between operations both sequencers of the connection's pipeline
\* stand at the number of ids issued: every operation that took an id has
\* opened and closed the request slot and the response slot of that id by
\* the time it returns, on success and on every error path.
C32_SlotsClosedOnReturn ==
    BetweenOperations => (pipe.request = pipe.id /\ pipe.response = pipe.id)

\* C32 witness: a scan call that took id 0 has returned a write error, with
\* the request sequencer at 1 and the response sequencer still at 0
C32_Witness ==
    \E p \in Callers :
        /\ pc[p] = "done"
        /\ loc[p].op \in ScanOps
        /\ loc[p].err \in {Err("io"), Err("timeout")}
        /\ loc[p].rlog = <<>>
        /\ pipe.id = 1
        /\ pipe.request = 1
        /\ pipe.response = 0

\* what the code does: the request slot of every id issued is closed by the
\* time its operation returns, and the response sequencer is never ahead of
\* the request sequencer
RequestSlotsClosedOnReturn ==
    /\ BetweenOperations => pipe.request = pipe.id
    /\ pipe.response <= pipe.request
    /\ pipe.request <= pipe.id

\* a line with the given command text went out on the wire
Wrote(e, text) == e.k = "line" /\ e.ok /\ e.cmd = text

\* a QUEUE line among the writes w has no SCAN line after it
QueueLeftOpen(w) ==
    \E i \in 1..Len(w) :
        /\ Wrote(w[i], CommandString(Queue))
        /\ ~\E j \in (i + 1)..Len(w) : Wrote(w[j], CommandString(ScanQueue))

\* the request of a scan call is complete or the call has returned: the call
\* writes nothing more
WritesOver(p) ==
    /\ loc[p].op \in FileOps
    /\ \/ pc[p] = "f_flush"
       \/ pc[p] = "done" /\ loc[p].out = "returned"

\* C33: when a batch scan call has made its last write, whether its request
\* went out whole or the call returned an error, every QUEUE line it wrote
\* is followed by a SCAN line it wrote: no queue is left open at the daemon.
C33_QueueAlwaysTerminated ==
    \A p \in Callers : WritesOver(p) => ~QueueLeftOpen(loc[p].wire)

\* C33 witness: ScanStream of two files wrote QUEUE and uploaded the first
\* file, could not open the second and returned, on a healthy connection,
\* without writing SCAN
C33_Witness ==
    \E p \in Callers :
        /\ pc[p] = "done"
        /\ loc[p].op = "ScanStream"
        /\ loc[p].err = Err("open")
        /\ Len(loc[p].wire) = 3
        /\ Wrote(loc[p].wire[1], CommandString(Queue))
        /\ loc[p].wire[3].k = "data" /\ loc[p].wire[3].ok
        /\ net.state = "open" /\ net.werr = "none"

\* what the code does: a batch whose request went out whole begins with
\* QUEUE and ends with SCAN, and a call of one item writes no QUEUE
QueueTerminatedWhenRequestComplete ==
    \A p \in Callers :
        (loc[p].op \in FileOps /\ pc[p] = "f_flush")
        => LET w == loc[p].wire IN
           /\ ~QueueLeftOpen(w)
           /\ Batch(loc[p].n) =>
                  (/\ Wrote(w[1], CommandString(Queue))
                   /\ Wrote(w[Len(w)], CommandString(ScanQueue)))
           /\ ~Batch(loc[p].n) =>
                  (\A i \in 1..Len(w) : ~Wrote(w[i], CommandString(Queue)))

\* where a handler is between StartRequest(id) and EndRequest(id), and
\* between StartResponse(id) and EndResponse(id)
RequestPcs ==
    {"b_write", "fs_queue", "fs_item", "fs_scan", "fs_one", "ss_queue", "sc_open",
     "sc_line", "sc_copy", "sc_flush", "ss_scan", "f_flush", "r_line", "r_copy", "r_flush"}
ResponsePcs == {"b_read", "b_read2", "pr_read"}

InRequestSlot(p) == pc[p] \in RequestPcs
InResponseSlot(p) == pc[p] \in ResponsePcs

\* C34: for every interleaving of two callers on one Client, a caller writes
\* to the connection only while it is in the request slot of its pipeline
\* id and reads from it only while it is in the response slot of its id,
\* after its request is over; at most one caller is in a request slot and at
\* most one in a response slot; and each sequencer moves one id at a time,
\* so the slots are granted in id order.  Hence the writes of two operations
\* never interleave, and responses are read in the order of the requests.
C34_RequestsDoNotInterleave ==
    /\ [](\A p \in Callers :
            /\ InRequestSlot(p) => pipe.request = loc[p].id
            /\ InResponseSlot(p) => (pipe.response = loc[p].id /\ pipe.request > loc[p].id)
            /\ \A q \in Callers \ {p} :
                    /\ ~(InRequestSlot(p) /\ InRequestSlot(q))
                    /\ ~(InResponseSlot(p) /\ InResponseSlot(q)))
    /\ [][/\ \A p \in Callers :
              /\ (Len(loc'[p].wire) > Len(loc[p].wire)) => InRequestSlot(p)
              /\ (Len(loc'[p].rlog) > Len(loc[p].rlog)) => InResponseSlot(p)
          /\ \/ pipe' = NewPipeline /\ \A p \in Callers : ~InRequestSlot(p) /\ ~InResponseSlot(p)
             \/ /\ pipe'.request \in {pipe.request, pipe.request + 1}
                /\ pipe'.response \in {pipe.response, pipe.response + 1}
                /\ pipe'.id \in {pipe.id, pipe.id + 1}]_vars

\* C34 witness: one caller is in the middle of its request (the command line
\* written, the payload not yet) while the other, holding the next id, waits
\* for the request slot
C34_Witness ==
    \E p \in Callers, q \in Callers :
        /\ pc[p] = "r_copy"
        /\ Len(loc[p].wire) = 1
        /\ pc[q] \in {"b_sreq", "f_sreq", "r_sreq"}
        /\ loc[q].id = loc[p].id + 1
        /\ pipe.request = loc[p].id

\* C34 witness: both requests are written; the caller with the first id
\* reads its response while the other waits for the response slot
C34_WitnessResponses ==
    \E p \in Callers, q \in Callers :
        /\ pc[p] = "pr_read"
        /\ pc[q] \in {"b_sresp", "f_sresp"}
        /\ loc[q].id = loc[p].id + 1
        /\ pipe.request = loc[q].id + 1
        /\ pipe.response = loc[p].id

=============================================================================
